---- MODULE Spec2Model ----
(***************************************************************************)
(* wp2tt: word-processor document -> InDesign Tagged Text.                 *)
(*                                                                         *)
(* The model follows WordProcessorToInDesignTaggedText.run(): the settings *)
(* file is read, the document's styles are declared, marked used and       *)
(* linked, the rules are linked, the used styles are defined in the        *)
(* writer, the document is converted node by node, and the settings are    *)
(* written back.  A second run on the same document follows the first.     *)
(*                                                                         *)
(* Python strings are sequences of tokens (<<"wp2tt", "/", "(Image)">>),   *)
(* None is the empty sequence where the code only tests truthiness, Style  *)
(* objects live in `heap` and are referred to by their index (0 is None),  *)
(* and a dict is a sequence of entries in insertion order.                 *)
(***************************************************************************)
EXTENDS Integers, Sequences, FiniteSets, TLC

VARIABLES
    doc,                  \* the input document and the command line (fixed)
    file,                 \* the settings file on disk, and its .bak sibling
    run,                  \* which run of the pipeline this is
    pc,                   \* position in run()
    idx,                  \* next node of doc.paragraphs() to convert
    settings,             \* SettingsFile: sections and the touched flag
    rules,                \* self.rules
    heap,                 \* every Style object created in this run
    styles,               \* self.styles: key -> Style, in insertion order
    base_names,           \* self.base_names
    base_styles,          \* self.base_styles
    special_styles,       \* self.footnote_ref_style, self.comment_style, ...
    manual_styles,        \* self.manual_styles
    style_sections_used,  \* self.style_sections_used
    stop_marker,          \* self.stop_marker
    state,                \* self.state (State dataclass)
    writer,               \* InDesignTaggedTextOutput
    log                   \* history: what each converted paragraph resolved to

vars == <<doc, file, run, pc, idx, settings, rules, heap, styles, base_names,
          base_styles, special_styles, manual_styles, style_sections_used, stop_marker, state, writer,
          log>>

-----------------------------------------------------------------------------
(* Bounds of the model                                                     *)

MaxParas == 2          \* paragraphs of a document of the style-graph family
MaxRuleParas == 3      \* paragraphs of a document of the rules family
MaxManualParas == 2    \* paragraphs of a document of the manual family
MaxRules == 2          \* rule sections of the settings file
MaxRuns == 2           \* runs of the pipeline on the same document

-----------------------------------------------------------------------------
(* Small helpers                                                           *)

None == <<>>
NoStyle == 0

Range(s) == {s[i] : i \in 1..Len(s)}

Last(s) == s[Len(s)]

RECURSIVE SeqSum(_)
SeqSum(s) == IF s = <<>> THEN 0 ELSE Head(s) + SeqSum(Tail(s))

\* Every sequence without repetition over a finite set S
RECURSIVE Perms(_)
Perms(S) ==
    IF S = {} THEN {<<>>}
    ELSE UNION {{<<x>> \o p : p \in Perms(S \ {x})} : x \in S}

SeqsUpTo(S, n) == UNION {[1..k -> S] : k \in 0..n}

\* Bind a value to a name: With(e, LAMBDA x : ...) is "x = e; ..."
With(v, Rest(_)) == Rest(v)

\* Run `Rest` on the object unless an exception is propagating
Then(m, Rest(_)) == IF m.exc # "" THEN m ELSE Rest(m)

-----------------------------------------------------------------------------
(* format.py: ManualFormat, a flag set                                     *)

FlagOrder == <<"CENTERED", "JUSTIFIED", "NEW_PAGE", "SPACED", "RTL", "LTR",
               "INDENTED", "BOLD", "ITALIC", "SUBSCRIPT", "SUPERSCRIPT",
               "RAISED", "LOWERED", "HIGHLIGHT">>

ManualFormat == Range(FlagOrder)

NORMAL == {}

\* The names of the set flags in declaration order, as iterating the enum does
FlagNames(fmt) == SelectSeq(FlagOrder, LAMBDA f : f \in fmt)

\* "_".join(...)
RECURSIVE JoinNames(_)
JoinNames(names) ==
    IF names = <<>> THEN <<>>
    ELSE IF Len(names) = 1 THEN names
    ELSE <<Head(names), "_">> \o JoinNames(Tail(names))

\* get_manual_style's fmtname
FmtName(fmt) ==
    IF fmt # NORMAL THEN JoinNames(FlagNames(fmt)) ELSE <<"NORMAL">>

-----------------------------------------------------------------------------
(* Python values as update_section sees them: a type tag and the text that *)
(* str() gives.  Values of different types are never equal.                *)

PyNone == [t |-> "NoneType", v |-> <<>>]
PyStr(s) == [t |-> "str", v |-> s]
PyBool(b) == [t |-> "bool", v |-> IF b THEN <<"True">> ELSE <<"False">>]
PyFmt(fmt) == [t |-> "ManualFormat", v |-> <<"ManualFormat.">> \o FmtName(fmt)]
PyOptStr(s) == IF s = None THEN PyNone ELSE PyStr(s)

Truthy(val) ==
    CASE val.t = "NoneType" -> FALSE
      [] val.t = "str" -> val.v # <<>>
      [] val.t = "bool" -> val.v = <<"True">>
      [] val.t = "ManualFormat" -> val.v # <<"ManualFormat.", "NORMAL">>

-----------------------------------------------------------------------------
(* ini.py: SettingsFile.  A store is a sequence of sections [name, kv] in  *)
(* file order; kv maps ini keys to the stored strings.                     *)

Whitespace == {" ", "\t", "\n"}

\* configparser strips the value it reads
RECURSIVE LStrip(_)
LStrip(s) ==
    IF s # <<>> /\ Head(s) \in Whitespace THEN LStrip(Tail(s)) ELSE s

RECURSIVE RStrip(_)
RStrip(s) ==
    IF s # <<>> /\ Last(s) \in Whitespace
    THEN RStrip(SubSeq(s, 1, Len(s) - 1)) ELSE s

Strip(s) == RStrip(LStrip(s))

Capitalize(realm) ==
    CASE realm = "paragraph" -> "Paragraph"
      [] realm = "character" -> "Character"
      [] realm = "table" -> "Table"
      [] OTHER -> realm

fix_section_name(realm, internal_name) ==
    <<Capitalize(realm), ":">> \o internal_name

SecIndex(secs, name) ==
    IF \E i \in 1..Len(secs) : secs[i].name = name
    THEN CHOOSE i \in 1..Len(secs) : secs[i].name = name
    ELSE 0

has_section(st, name) == SecIndex(st.sections, name) # 0

EmptyKv == [k \in {} |-> <<>>]

get_section(st, name) ==
    IF has_section(st, name)
    THEN st.sections[SecIndex(st.sections, name)].kv
    ELSE EmptyKv

ensure_section(st, name) ==
    IF has_section(st, name) THEN st
    ELSE [st EXCEPT !.sections = Append(@, [name |-> name, kv |-> EmptyKv])]

\* section.get(ini_name)
SectionGet(kv, k) == IF k \in DOMAIN kv THEN PyStr(kv[k]) ELSE PyNone

KvSet(kv, k, v) == [x \in DOMAIN kv \cup {k} |-> IF x = k THEN v ELSE kv[x]]

KvPop(kv, k) == [x \in DOMAIN kv \ {k} |-> kv[x]]

\* SettingsFile.fields(Style): (name, ini_name), hidden fields left out
StyleFields ==
    << <<"wpid", "wpid (readonly)">>,
       <<"name", "name">>,
       <<"parent_wpid", "parent_wpid (readonly)">>,
       <<"next_wpid", "next_wpid (readonly)">>,
       <<"automatic", "automatic (readonly)">>,
       <<"custom", "custom (readonly)">>,
       <<"fmt", "fmt (readonly)">>,
       <<"idtt", "idtt">>,
       <<"variable", "variable">> >>

\* SettingsFile.fields(Style, writeable=True)
StyleFieldsWriteable ==
    SelectSeq(StyleFields, LAMBDA f : f[1] = f[2])

\* getattr(style, name), as the Python value it is
GetAttr(style, name) ==
    CASE name = "wpid" -> PyStr(style.wpid)
      [] name = "name" -> PyStr(style.name)
      [] name = "parent_wpid" -> PyOptStr(style.parent_wpid)
      [] name = "next_wpid" -> PyOptStr(style.next_wpid)
      [] name = "automatic" -> PyBool(style.automatic)
      [] name = "custom" -> style.custom
      [] name = "fmt" -> PyFmt(style.fmt)
      [] name = "idtt" -> PyStr(style.idtt)
      [] name = "variable" -> PyOptStr(style.variable)

\* One pass of update_section's loop over the fields
RECURSIVE UpdateFields(_, _, _, _)
UpdateFields(kv, touched, style, fields) ==
    IF fields = <<>> THEN [kv |-> kv, touched |-> touched]
    ELSE With(GetAttr(style, Head(fields)[1]), LAMBDA value :
         UpdateFields(
            IF Truthy(value) THEN KvSet(kv, Head(fields)[2], value.v)
            ELSE KvPop(kv, Head(fields)[2]),
            touched \/ SectionGet(kv, Head(fields)[2]) # value,
            style, Tail(fields)))

update_section(st, section_name, style) ==
    With(ensure_section(st, section_name), LAMBDA st1 :
    With(SecIndex(st1.sections, section_name), LAMBDA i :
    With(UpdateFields(st1.sections[i].kv, st1.touched, style, StyleFields),
         LAMBDA r :
    [st1 EXCEPT !.sections[i].kv = r.kv, !.touched = r.touched])))

\* What a later SettingsFile(path) reads back from what write() wrote
ReadBack(secs) ==
    [i \in 1..Len(secs) |->
        [name |-> secs[i].name,
         kv |-> [k \in DOMAIN secs[i].kv |-> Strip(secs[i].kv[k])]]]

-----------------------------------------------------------------------------
(* The converter object.  The operators below take and return `m`, a       *)
(* record of the object's fields (the variables of the same names), with   *)
(* `ret` for the value a method returns and `exc` for an exception that is *)
(* propagating ("" when none is).                                          *)

Realms == {"character", "paragraph", "table"}

SPECIAL_GROUP == <<"wp2tt">>
FOOTNOTE_REF_STYLE == SPECIAL_GROUP \o <<"/", "(Footnote Reference in Text)">>
COMMENT_REF_STYLE == SPECIAL_GROUP \o <<"/", "(Comment Reference)">>
COMMENT_STYLE == SPECIAL_GROUP \o <<"/", "(Comment)">>
IMAGE_STYLE == SPECIAL_GROUP \o <<"/", "(Image)">>
FORMULA_STYLE == SPECIAL_GROUP \o <<"/", "(Formula)">>
TABLE_PARAGRAPH_STYLE == SPECIAL_GROUP \o <<"/", "(Table Container)">>
BASIC_TABLE_STYLE == <<"\\[Basic Table\\]">>

\* args.base_character_style, args.base_paragraph_style
BaseCharacterStyle == <<"NormalCharacterStyle">>
BaseParagraphStyle == <<"NormalParagraphStyle">>

IGNORED_STYLES == [character |-> {<<"annotation reference">>}]

\* **kwargs of found_style_definition / add_style; has_parent_wpid tells a
\* parent_wpid key that is present (even if None) from an absent one
Kw ==
    [name |-> None, has_parent_wpid |-> FALSE, parent_wpid |-> None,
     next_wpid |-> None, automatic |-> FALSE, custom |-> PyBool(FALSE),
     fmt |-> NORMAL, idtt |-> <<>>, variable |-> None, used |-> FALSE,
     parent_style |-> NoStyle]

\* STYLE_OVERRIDE[realm][internal_name] merged into kwargs
STYLE_OVERRIDE(realm, internal_name, kw) ==
    IF realm = "character" /\ internal_name = COMMENT_REF_STYLE
    THEN [kw EXCEPT !.idtt =
            <<"<pShadingColor:Cyan><pShadingOn:1><pShadingTint:100>">>]
    ELSE IF realm = "paragraph" /\ internal_name = <<"annotation text">>
    THEN [kw EXCEPT !.name = SPECIAL_GROUP \o <<"/", "(Comment Text)">>,
                    !.idtt = <<"<cSize:6><cColor:Cyan><cColorTint:100>">>]
    ELSE kw

style_key(realm, wpid) == <<realm, wpid>>

\* self.styles as a dict
StylesIndex(reg, key) ==
    IF \E i \in 1..Len(reg) : reg[i].key = key
    THEN CHOOSE i \in 1..Len(reg) : reg[i].key = key
    ELSE 0

StylesHas(reg, key) == StylesIndex(reg, key) # 0

StylesGet(reg, key) == reg[StylesIndex(reg, key)].obj

StylesPut(reg, key, obj) ==
    IF StylesHas(reg, key)
    THEN [reg EXCEPT ![StylesIndex(reg, key)].obj = obj]
    ELSE Append(reg, [key |-> key, obj |-> obj])

\* add_style: a new Style object, stored under its key; ret is the object
add_style(m, realm, wpid, internal_name, kw) ==
    LET style == [realm |-> realm, wpid |-> wpid,
                  internal_name |-> internal_name,
                  name |-> IF kw.name = None THEN internal_name ELSE kw.name,
                  parent_wpid |-> kw.parent_wpid, next_wpid |-> kw.next_wpid,
                  automatic |-> kw.automatic, custom |-> kw.custom,
                  fmt |-> kw.fmt, idtt |-> kw.idtt, variable |-> kw.variable,
                  used |-> kw.used, count |-> 0,
                  parent_style |-> kw.parent_style, next_style |-> NoStyle]
        obj == Len(m.heap) + 1
    IN  [m EXCEPT !.heap = Append(@, style),
                  !.styles = StylesPut(@, style_key(realm, wpid), obj),
                  !.ret = obj]

\* An update from every field of the section, the read-only ones included
SectionOverrides_all_fields(kw, section) ==
    [kw EXCEPT
        !.name = IF "name" \in DOMAIN section THEN section["name"] ELSE @,
        !.idtt = IF "idtt" \in DOMAIN section THEN section["idtt"] ELSE @,
        !.variable =
            IF "variable" \in DOMAIN section THEN section["variable"] ELSE @,
        !.parent_wpid =
            IF "parent_wpid (readonly)" \in DOMAIN section
            THEN section["parent_wpid (readonly)"] ELSE @,
        !.next_wpid =
            IF "next_wpid (readonly)" \in DOMAIN section
            THEN section["next_wpid (readonly)"] ELSE @]

\* kwargs.update({name: section[ini_name] for the writeable fields in section})
SectionOverrides(kw, section) ==
    [kw EXCEPT
        !.name = IF "name" \in DOMAIN section THEN section["name"] ELSE @,
        !.idtt = IF "idtt" \in DOMAIN section THEN section["idtt"] ELSE @,
        !.variable =
            IF "variable" \in DOMAIN section THEN section["variable"] ELSE @]

found_style_definition(m, realm, internal_name, wpid, kwargs) ==
    With(IF realm \notin DOMAIN m.base_names
         THEN [m EXCEPT !.base_names =
                    [r \in DOMAIN @ \cup {realm} |->
                        IF r = realm THEN BaseCharacterStyle ELSE @[r]]]
         ELSE m, LAMBDA m1 :
    With(IF kwargs.has_parent_wpid THEN kwargs
         ELSE IF kwargs.parent_style # NoStyle
         THEN [kwargs EXCEPT
                  !.has_parent_wpid = TRUE,
                  !.parent_wpid = m.heap[kwargs.parent_style].wpid]
         ELSE IF wpid # m1.base_names[realm]
         THEN [kwargs EXCEPT !.has_parent_wpid = TRUE,
                             !.parent_wpid = m1.base_names[realm]]
         ELSE kwargs, LAMBDA kw1 :
    With(STYLE_OVERRIDE(realm, internal_name, kw1), LAMBDA kw2 :
    With(IF kw2.name = None THEN [kw2 EXCEPT !.name = internal_name]
         ELSE kw2, LAMBDA kw3 :
    add_style(m1, realm, wpid, internal_name,
        SectionOverrides(kw3,
            get_section(m.settings,
                        fix_section_name(realm, internal_name))))))))

Special(name, parent, idtt) ==
    [Kw EXCEPT !.automatic = TRUE, !.idtt = idtt,
               !.has_parent_wpid = parent # None, !.parent_wpid = parent]

create_special_styles(m) ==
    With([m EXCEPT !.base_names =
                [character |-> BaseCharacterStyle,
                 paragraph |-> BaseParagraphStyle,
                 table |-> BASIC_TABLE_STYLE]], LAMBDA m0 :
    With([Kw EXCEPT !.used = TRUE, !.automatic = TRUE], LAMBDA base :
    With(found_style_definition(m0, "character", BaseCharacterStyle,
                                BaseCharacterStyle, base), LAMBDA m1 :
    With(found_style_definition(m1, "paragraph", BaseParagraphStyle,
                                BaseParagraphStyle, base), LAMBDA m2 :
    With(found_style_definition(m2, "table", BASIC_TABLE_STYLE,
                                BASIC_TABLE_STYLE, base), LAMBDA m3 :
    With(found_style_definition(m3, "character", FOOTNOTE_REF_STYLE,
            FOOTNOTE_REF_STYLE,
            Special(FOOTNOTE_REF_STYLE, None,
                <<"<cColor:Magenta><cColorTint:100><cPosition:Superscript>">>)),
         LAMBDA m4 :
    With(found_style_definition(m4, "paragraph", COMMENT_STYLE,
            COMMENT_STYLE, Special(COMMENT_STYLE, BaseParagraphStyle, <<>>)),
         LAMBDA m5 :
    With(found_style_definition(m5, "character", COMMENT_REF_STYLE,
            COMMENT_REF_STYLE,
            Special(COMMENT_REF_STYLE, FOOTNOTE_REF_STYLE,
                <<"<cColor:Cyan><cColorTint:100>">>)), LAMBDA m6 :
    With(found_style_definition(m6, "character", IMAGE_STYLE, IMAGE_STYLE,
            Special(IMAGE_STYLE, None, <<"<cColor:Yellow><cColorTint:100>">>)),
         LAMBDA m7 :
    With(found_style_definition(m7, "character", FORMULA_STYLE,
            FORMULA_STYLE,
            Special(FORMULA_STYLE, None, <<"<cColor:Yellow><cColorTint:100>">>)),
         LAMBDA m8 :
    With(found_style_definition(m8, "paragraph", TABLE_PARAGRAPH_STYLE,
            TABLE_PARAGRAPH_STYLE, Special(TABLE_PARAGRAPH_STYLE, None, <<>>)),
         LAMBDA m9 :
    [m9 EXCEPT
        !.base_styles = [character |-> m1.ret, paragraph |-> m2.ret,
                         table |-> m3.ret],
        !.special_styles =
            [footnote_ref_style |-> m4.ret, comment_style |-> m5.ret,
             comment_ref_style |-> m6.ret, image_style |-> m7.ret,
             formula_style |-> m8.ret, table_paragraph_style |-> m9.ret],
        !.manual_styles = <<>>])))))))))))

\* The loop of scan_style_definitions; counts is the per-realm numbering of
\* automatic styles
RECURSIVE DeclareAll(_, _, _)
DeclareAll(m, decls, counts) ==
    IF decls = <<>> THEN m
    ELSE LET d == Head(decls)
             num == counts[d.realm] + 1
             kw == IF d.kw.automatic
                   THEN [d.kw EXCEPT !.name =
                            SPECIAL_GROUP \o <<"/", "automatic-", ToString(num)>>]
                   ELSE d.kw
             c1 == IF d.kw.automatic THEN [counts EXCEPT ![d.realm] = num]
                   ELSE counts
         IN  DeclareAll(
                found_style_definition(m, d.realm, d.internal_name, d.wpid, kw),
                Tail(decls), c1)

scan_style_definitions(m, document) ==
    DeclareAll(create_special_styles([m EXCEPT !.styles = <<>>]),
               document.styles_defined, [r \in Realms |-> 0])

RECURSIVE MarkUsed(_, _)
MarkUsed(m, uses) ==
    IF uses = <<>> THEN m
    ELSE LET key == style_key(Head(uses)[1], Head(uses)[2])
             m1 == IF StylesHas(m.styles, key)
                      /\ ~m.heap[StylesGet(m.styles, key)].used
                   THEN [m EXCEPT !.heap[StylesGet(m.styles, key)].used = TRUE]
                   ELSE m
         IN  MarkUsed(m1, Tail(uses))

scan_style_mentions(m, document) ==
    LET m1 == MarkUsed(m, document.styles_in_use)
    IN  IF \E i \in 1..Len(document.styles_in_use) :
                document.styles_in_use[i][1] = "table"
        THEN [m1 EXCEPT
                !.heap[m.special_styles.table_paragraph_style].used = TRUE]
        ELSE m1

\* style_or_none; ret is the Style, exc is set when self.styles has no such key
style_or_none(m, realm, wpid) ==
    IF wpid = None THEN [m EXCEPT !.ret = NoStyle]
    ELSE IF StylesHas(m.styles, style_key(realm, wpid))
    THEN [m EXCEPT !.ret = StylesGet(m.styles, style_key(realm, wpid))]
    ELSE [m EXCEPT !.exc = "KeyError"]

RECURSIVE LinkFrom(_, _)
LinkFrom(m, i) ==
    IF i > Len(m.styles) \/ m.exc # "" THEN m
    ELSE With(m.styles[i].obj, LAMBDA s :
         With(style_or_none(m, m.heap[s].realm, m.heap[s].parent_wpid),
              LAMBDA p :
         With(IF p.exc # "" THEN p
              ELSE [m EXCEPT !.heap[s].parent_style = p.ret], LAMBDA m1 :
         With(style_or_none(m1, m.heap[s].realm, m.heap[s].next_wpid),
              LAMBDA n :
         LinkFrom(IF m1.exc # "" \/ n.exc # ""
                  THEN [m1 EXCEPT !.exc = "KeyError"]
                  ELSE [m1 EXCEPT !.heap[s].next_style = n.ret], i + 1)))))

link_styles(m) == LinkFrom(m, 1)

-----------------------------------------------------------------------------
(* tagged_text.py: InDesignTaggedTextOutput.  `out` is the buffer, one     *)
(* record per tag or run of text; a definition block is one record, with   *)
(* the names it writes after BasedOn and Nextstyle.  `obj` remembers the   *)
(* Style object a record was written for.                                  *)

SEEN == 0
DEFINED == 1
WRITTEN == 2

REALM_TO_MNEM == [character |-> "Char", paragraph |-> "Para", table |-> "Table"]

\* One record of the buffer.  via, wcs and scs are history, not output: via
\* is "set" on the tag a set_character_style call wrote, with wcs the
\* writer's _curr_char_style before the call; on a text, wcs is the writer's
\* _curr_char_style and scs the converter's state.curr_char_style when the
\* text was written.
Item(t) ==
    [t |-> t, mnem |-> "", name |-> <<>>, based_on |-> <<>>, next |-> <<>>,
     idtt |-> <<>>, text |-> <<>>, obj |-> NoStyle,
     via |-> "", wcs |-> NoStyle, scs |-> NoStyle]

\* _idname: re.sub(r"\s*/\s*", r"\:", style.name)
RECURSIVE _idname(_)
_idname(name) ==
    IF name = <<>> THEN <<>>
    ELSE IF Head(name) = "/" THEN <<"\\:">> \o _idname(LStrip(Tail(name)))
    ELSE IF Head(name) \in Whitespace /\ LStrip(name) # <<>>
            /\ Head(LStrip(name)) = "/"
    THEN _idname(LStrip(name))
    ELSE <<Head(name)>> \o _idname(Tail(name))

\* An _escape whose replacement lacks the group: each bracket becomes a lone
\* backslash
RECURSIVE _escape_without_group(_)
_escape_without_group(text) ==
    IF text = <<>> THEN <<>>
    ELSE IF Head(text) \in {"<", ">"}
    THEN <<"\\">> \o _escape_without_group(Tail(text))
    ELSE <<Head(text)>> \o _escape_without_group(Tail(text))

\* _escape: re.sub(r"([<>])", r"\\\1", text)
RECURSIVE _escape(_)
_escape(text) ==
    IF text = <<>> THEN <<>>
    ELSE IF Head(text) \in {"<", ">"}
    THEN <<"\\", Head(text)>> \o _escape(Tail(text))
    ELSE <<Head(text)>> \o _escape(Tail(text))

_write(m, item) ==
    [m EXCEPT !.writer.out = Append(@, item),
              !.writer.newly_newlined = (item.t = "Newline")]

_writeln(m) == _write(m, Item("Newline"))

\* Style.__eq__ (the fields with compare=True); __hash__ agrees whenever it does
StyleEq(a, b) ==
    /\ a.realm = b.realm /\ a.wpid = b.wpid
    /\ a.internal_name = b.internal_name /\ a.name = b.name
    /\ a.parent_wpid = b.parent_wpid /\ a.next_wpid = b.next_wpid
    /\ a.automatic = b.automatic /\ a.custom = b.custom /\ a.fmt = b.fmt
    /\ a.idtt = b.idtt /\ a.variable = b.variable

\* self._styles as a dict keyed by Style
WIndex(m, s) ==
    LET hit(i) == m.writer.styles[i].s = s
                  \/ StyleEq(m.heap[m.writer.styles[i].s], m.heap[s])
    IN  IF \E i \in 1..Len(m.writer.styles) : hit(i)
        THEN CHOOSE i \in 1..Len(m.writer.styles) :
                hit(i) /\ \A j \in 1..(i - 1) : ~hit(j)
        ELSE 0

WSet(m, s, st) ==
    IF WIndex(m, s) # 0
    THEN [m EXCEPT !.writer.styles[WIndex(m, s)].st = st]
    ELSE [m EXCEPT !.writer.styles = Append(@, [s |-> s, st |-> st])]

\* The tint of a style without idtt is written as the shade index n that
\* next(self._shades[realm]) yields; the code prints a percentage computed
\* from n (50 + 50 / 1.05 ** n), which the model does not evaluate.
_write_style_definition(m, s) ==
    IF WIndex(m, s) # 0 /\ m.writer.styles[WIndex(m, s)].st >= WRITTEN THEN m
    ELSE LET style == m.heap[s]
             shade == m.writer.shades[style.realm]
             idtt == IF style.idtt # <<>> THEN style.idtt
                     ELSE IF style.realm = "paragraph"
                     THEN <<"<pShadingColor:Yellow>", "<pShadingOn:1>",
                            "<pShadingTint:", ToString(shade), ">">>
                     ELSE IF style.realm = "character"
                     THEN <<"<cColor:Magenta>", "<cColorTint:",
                            ToString(shade), ">">>
                     ELSE <<>>
             m1 == IF style.idtt # <<>> THEN m
                   ELSE [m EXCEPT !.writer.shades[style.realm] = @ + 1]
             item == [Item("Define") EXCEPT
                 !.mnem = REALM_TO_MNEM[style.realm],
                 !.name = _idname(style.name),
                 !.idtt = idtt,
                 !.based_on =
                    IF style.parent_style # NoStyle
                       /\ m.heap[style.parent_style].used
                    THEN _idname(m.heap[style.parent_style].name) ELSE <<>>,
                 !.next =
                    IF style.next_style # NoStyle
                       /\ m.heap[style.next_style].used
                    THEN _idname(m.heap[style.next_style].name) ELSE <<>>,
                 !.obj = s]
         IN  IF style.realm \notin DOMAIN REALM_TO_MNEM
             THEN [m1 EXCEPT !.exc = "KeyError"]
             ELSE WSet(_write(m1, item), s, WRITTEN)

\* A define_style that returns early only while the style is in progress
\* (SEEN), not once it is defined or written
RECURSIVE define_style_in_progress_only(_, _)
define_style_in_progress_only(m, s) ==
    IF m.exc # "" THEN m
    ELSE IF WIndex(m, s) # 0 /\ m.writer.styles[WIndex(m, s)].st = SEEN THEN m
    ELSE With(WSet(m, s, SEEN), LAMBDA m1 :
         With(IF m.heap[s].parent_style # NoStyle
              THEN define_style_in_progress_only(m1, m.heap[s].parent_style)
              ELSE m1, LAMBDA m2 :
         With(IF m.heap[s].next_style # NoStyle
              THEN define_style_in_progress_only(m2, m.heap[s].next_style)
              ELSE m2, LAMBDA m3 :
         Then(m3, LAMBDA x :
         With(WSet(x, s, DEFINED), LAMBDA m4 :
         IF m4.writer.headers_written
         THEN _write_style_definition(m4, s)
         ELSE m4)))))

RECURSIVE define_style(_, _)
define_style(m, s) ==
    IF WIndex(m, s) # 0 \/ m.exc # "" THEN m
    ELSE With(WSet(m, s, SEEN), LAMBDA m1 :
         With(IF m.heap[s].parent_style # NoStyle
              THEN define_style(m1, m.heap[s].parent_style) ELSE m1,
              LAMBDA m2 :
         With(IF m.heap[s].next_style # NoStyle
              THEN define_style(m2, m.heap[s].next_style) ELSE m2,
              LAMBDA m3 :
         Then(m3, LAMBDA x :
         With(WSet(x, s, DEFINED), LAMBDA m4 :
         IF m4.writer.headers_written
         THEN _write_style_definition(m4, s)
         ELSE m4)))))

RECURSIVE HeaderDefinitions(_, _)
HeaderDefinitions(m, i) ==
    IF i > Len(m.writer.styles) \/ m.exc # "" THEN m
    ELSE HeaderDefinitions(
            Then(_write_style_definition(m, m.writer.styles[i].s),
                 LAMBDA m1 : _writeln(m1)),
            i + 1)

\* A _write_headers that writes the banner but not the definitions of the
\* styles defined so far
_write_headers_banner_only(m) ==
    IF m.writer.headers_written THEN m
    ELSE [_writeln(_write(m, Item("Banner"))) EXCEPT
            !.writer.headers_written = TRUE]

_write_headers(m) ==
    IF m.writer.headers_written THEN m
    ELSE Then(HeaderDefinitions(_writeln(_write(m, Item("Banner"))), 1),
              LAMBDA m2 : [m2 EXCEPT !.writer.headers_written = TRUE])

\* A _set_style that writes the tag without defining the style first
_set_style_tag_only(m, id_real, s) ==
    _write(m, [Item(id_real \o "Style") EXCEPT
        !.name = IF s # NoStyle THEN _idname(m.heap[s].name) ELSE <<>>,
        !.obj = s])

_set_style(m, id_real, s) ==
    Then(IF s # NoStyle THEN define_style(m, s) ELSE m, LAMBDA m1 :
    _write(m1, [Item(id_real \o "Style") EXCEPT
        !.name = IF s # NoStyle THEN _idname(m.heap[s].name) ELSE <<>>,
        !.obj = s]))

enter_paragraph(m, s) ==
    Then(_write_headers(m), LAMBDA m1 :
    Then(_set_style(m1, "Para", s), LAMBDA m2 :
    IF m2.writer.curr_char_style # NoStyle
    THEN _set_style(m2, "Char", m2.writer.curr_char_style)
    ELSE m2))

leave_paragraph(m) ==
    With(IF m.writer.curr_char_style # NoStyle
         THEN _set_style(m, "Char", NoStyle) ELSE m, LAMBDA m1 :
    IF ~m1.writer.in_table THEN _writeln(m1) ELSE m1)

set_character_style(m, s) ==
    Then(_set_style(m, "Char", s), LAMBDA m1 :
    [m1 EXCEPT !.writer.curr_char_style = s,
               !.writer.out[Len(m1.writer.out)] =
                    [@ EXCEPT !.via = "set",
                              !.wcs = m.writer.curr_char_style]])

enter_footnote(m) == _write(m, Item("FootnoteStart"))

\* leave_footnote: _unwrite steps back over the newline just written, which
\* the end tag then overwrites
leave_footnote(m) ==
    _write(IF m.writer.newly_newlined
           THEN [m EXCEPT !.writer.out = SubSeq(@, 1, Len(@) - 1)]
           ELSE m, Item("FootnoteEnd"))

enter_table(m, s) ==
    Then(_set_style(m, "Table", s), LAMBDA m1 :
    [_write(m1, Item("TableStart")) EXCEPT !.writer.in_table = TRUE])

leave_table(m) ==
    [_write(m, Item("TableEnd")) EXCEPT !.writer.in_table = FALSE]

enter_table_row(m) == _write(m, Item("RowStart"))

leave_table_row(m) == _write(m, Item("RowEnd"))

enter_table_cell(m) == _write(m, Item("CellStart"))

leave_table_cell(m) == _write(m, Item("CellEnd"))

writer_write_text(m, text) ==
    IF text # <<>>
    THEN _write(m, [Item("Text") EXCEPT !.text = _escape(text),
                                        !.wcs = m.writer.curr_char_style,
                                        !.scs = m.state.curr_char_style])
    ELSE m

\* output.py: WhitespaceStripper.write_text on a stack of proxies, the
\* outermost proxy last; each holds its `begun` flag.  The result is the
\* text that reaches the writer and the flags after the call.
RECURSIVE Stripped(_, _)
Stripped(strip, text) ==
    IF strip = <<>> THEN [strip |-> <<>>, text |-> text]
    ELSE LET top == Last(strip)
             t1 == IF top THEN text ELSE LStrip(text)
             below == Stripped(SubSeq(strip, 1, Len(strip) - 1), t1)
         IN  [strip |-> Append(below.strip, top \/ t1 # <<>>),
              text |-> below.text]

\* self.writer.write_text(text) as the converter calls it
proxy_write_text(m, text) ==
    With(Stripped(m.strip, text), LAMBDA r :
    writer_write_text([m EXCEPT !.strip = r.strip], r.text))

-----------------------------------------------------------------------------
(* __init__.py: style lookup and activation                                *)

\* activate_style.  `stack` holds the styles whose activation is waiting for
\* the activation of their parent, with no section recorded since: meeting
\* one of them again repeats the same calls for ever (Python's unbounded
\* recursion).  The call for the next style comes after the style's own
\* section is recorded, so it starts a new chain.
RECURSIVE ActivateStyle(_, _, _)
ActivateStyle(m, s, stack) ==
    LET section_name ==
            fix_section_name(m.heap[s].realm, m.heap[s].internal_name)
    IN
    IF m.exc # "" THEN m
    ELSE IF section_name \in m.style_sections_used THEN m
    ELSE IF s \in stack THEN [m EXCEPT !.exc = "RecursionError"]
    ELSE
    With(m.heap[s].parent_style, LAMBDA p :
    With(IF ~(p # NoStyle /\ ~m.heap[p].used) THEN m
         ELSE IF m.heap[s].realm \notin DOMAIN m.base_styles
         THEN [m EXCEPT !.exc = "KeyError"]
         ELSE [m EXCEPT
               !.heap[s].parent_style = m.base_styles[m.heap[s].realm],
               !.heap[s].parent_wpid =
                   m.heap[m.base_styles[m.heap[s].realm]].wpid], LAMBDA m1 :
    Then(IF p # NoStyle /\ m1.exc = ""
         THEN ActivateStyle(m1, m1.heap[s].parent_style, stack \cup {s})
         ELSE m1, LAMBDA m2 :
    With([m2 EXCEPT
            !.settings = update_section(@, section_name, m2.heap[s]),
            !.style_sections_used = @ \cup {section_name}], LAMBDA m3 :
    IF m.heap[s].next_style # NoStyle /\ m3.heap[m.heap[s].next_style].used
    THEN ActivateStyle(m3, m.heap[s].next_style, {})
    ELSE m3))))

activate_style(m, s) == ActivateStyle(m, s, {})

\* style(realm, wpid); ret is the Style or NoStyle
style(m, realm, wpid) ==
    IF wpid = None THEN [m EXCEPT !.ret = NoStyle]
    ELSE IF ~StylesHas(m.styles, style_key(realm, wpid))
    THEN [m EXCEPT !.exc = "KeyError"]
    ELSE With(StylesGet(m.styles, style_key(realm, wpid)), LAMBDA s :
         IF realm \in DOMAIN IGNORED_STYLES
            /\ m.heap[s].internal_name \in IGNORED_STYLES[realm]
         THEN [m EXCEPT !.ret = NoStyle]
         ELSE Then(activate_style(m, s), LAMBDA m1 :
              [m1 EXCEPT !.heap[s].count = @ + 1, !.ret = s]))

-----------------------------------------------------------------------------
(* __init__.py: manual formatting                                          *)

\* parse_command_line: format_mask = ~ManualFormat[args.direction]
format_mask(a) ==
    IF a.direction = "IGNORE" THEN NORMAL ELSE ManualFormat \ {a.direction}

ManualIndex(ms, key) ==
    IF \E i \in 1..Len(ms) : ms[i].key = key
    THEN CHOOSE i \in 1..Len(ms) : ms[i].key = key
    ELSE 0

\* A get_manual_style that does not consult self.manual_styles before
\* creating the style
get_manual_style_uncached(m, realm, unadorned, fmt0) ==
    LET fmt == IF fmt0 # NORMAL /\ unadorned # NoStyle
               THEN fmt0 \ m.heap[unadorned].fmt ELSE fmt0
        uaid == IF unadorned # NoStyle THEN m.heap[unadorned].wpid ELSE None
        mfcs == [fmt |-> fmt, unadorned |-> uaid]
        fmtname == FmtName(fmt)
        name == IF unadorned # NoStyle
                THEN SPECIAL_GROUP \o <<"/">> \o m.heap[unadorned].name
                     \o <<" (">> \o fmtname \o <<")">>
                ELSE SPECIAL_GROUP \o <<"/", "(">> \o fmtname \o <<")">>
    IN  IF fmt = NORMAL /\ (unadorned # NoStyle \/ realm # "paragraph")
        THEN [m EXCEPT !.ret = unadorned]
        ELSE Then(IF unadorned # NoStyle THEN [m EXCEPT !.ret = unadorned]
                  ELSE style(m, realm, m.base_names[realm]), LAMBDA mp :
             With(found_style_definition(mp, realm, name, name,
                    [Kw EXCEPT !.parent_style = mp.ret, !.automatic = TRUE]),
                  LAMBDA made :
             [made EXCEPT !.manual_styles =
                IF ManualIndex(@, mfcs) # 0
                THEN [@ EXCEPT ![ManualIndex(@, mfcs)].obj = made.ret]
                ELSE Append(@, [key |-> mfcs, obj |-> made.ret])]))

\* A get_manual_style without the exception for the other realms: with no
\* bits left and no base style it makes the unformatted style in any realm
get_manual_style_any_realm(m, realm, unadorned, fmt0) ==
    LET fmt == IF fmt0 # NORMAL /\ unadorned # NoStyle
               THEN fmt0 \ m.heap[unadorned].fmt ELSE fmt0
        uaid == IF unadorned # NoStyle THEN m.heap[unadorned].wpid ELSE None
        mfcs == [fmt |-> fmt, unadorned |-> uaid]
        fmtname == FmtName(fmt)
        name == IF unadorned # NoStyle
                THEN SPECIAL_GROUP \o <<"/">> \o m.heap[unadorned].name
                     \o <<" (">> \o fmtname \o <<")">>
                ELSE SPECIAL_GROUP \o <<"/", "(">> \o fmtname \o <<")">>
    IN  IF fmt = NORMAL /\ unadorned # NoStyle
        THEN [m EXCEPT !.ret = unadorned]
        ELSE IF ManualIndex(m.manual_styles, mfcs) # 0
        THEN [m EXCEPT !.ret =
                m.manual_styles[ManualIndex(m.manual_styles, mfcs)].obj]
        ELSE Then(IF unadorned # NoStyle THEN [m EXCEPT !.ret = unadorned]
                  ELSE style(m, realm, m.base_names[realm]), LAMBDA mp :
             With(found_style_definition(mp, realm, name, name,
                    [Kw EXCEPT !.parent_style = mp.ret, !.automatic = TRUE]),
                  LAMBDA made :
             [made EXCEPT !.manual_styles =
                Append(@, [key |-> mfcs, obj |-> made.ret])]))

\* get_manual_style(realm, unadorned, fmt); ret is the Style or NoStyle
get_manual_style(m, realm, unadorned, fmt0) ==
    LET fmt == IF fmt0 # NORMAL /\ unadorned # NoStyle
               THEN fmt0 \ m.heap[unadorned].fmt ELSE fmt0
        uaid == IF unadorned # NoStyle THEN m.heap[unadorned].wpid ELSE None
        mfcs == [fmt |-> fmt, unadorned |-> uaid]
        fmtname == FmtName(fmt)
        name == IF unadorned # NoStyle
                THEN SPECIAL_GROUP \o <<"/">> \o m.heap[unadorned].name
                     \o <<" (">> \o fmtname \o <<")">>
                ELSE SPECIAL_GROUP \o <<"/", "(">> \o fmtname \o <<")">>
    IN  IF fmt = NORMAL /\ (unadorned # NoStyle \/ realm # "paragraph")
        THEN [m EXCEPT !.ret = unadorned]
        ELSE IF ManualIndex(m.manual_styles, mfcs) # 0
        THEN [m EXCEPT !.ret =
                m.manual_styles[ManualIndex(m.manual_styles, mfcs)].obj]
        \* parent = unadorned or self.style(realm, self.base_names[realm])
        ELSE Then(IF unadorned # NoStyle THEN [m EXCEPT !.ret = unadorned]
                  ELSE style(m, realm, m.base_names[realm]), LAMBDA mp :
             With(found_style_definition(mp, realm, name, name,
                    [Kw EXCEPT !.parent_style = mp.ret, !.automatic = TRUE]),
                  LAMBDA made :
             [made EXCEPT !.manual_styles =
                Append(@, [key |-> mfcs, obj |-> made.ret])]))

get_span_format(m, node) == node.fmt \cap format_mask(m.args)

\* str.isspace()
IsSpace(text) == text # <<>> /\ \A i \in 1..Len(text) : text[i] \in Whitespace

\* get_paragraph_style(para); ret is the Style or NoStyle
get_paragraph_style(m, para) ==
    LET f0 == para.fmt \cap format_mask(m.args)
        f1 == IF m.state.is_post_break THEN f0 \cup {"NEW_PAGE"}
              ELSE IF m.state.is_post_empty THEN f0 \cup {"SPACED"}
              ELSE f0
        first == IF para.spans # <<>> /\ para.spans[1].text # <<>>
                 THEN para.spans[1].text[1] ELSE <<"x">>
        f2 == IF IsSpace(<<Head(first)>>) THEN f1 \cup {"INDENTED"} ELSE f1
        char_fmts == {get_span_format(m, para.spans[i]) :
                        i \in 1..Len(para.spans)}
        one == Cardinality(char_fmts) = 1
        pcf == CHOOSE f \in char_fmts : TRUE
        f3 == IF one THEN f2 \cup pcf ELSE f2
    IN  Then(style([m EXCEPT !.state.para_char_fmt = NORMAL],
                   "paragraph", para.wpid), LAMBDA m1 :
        IF ~m.args.manual THEN m1
        ELSE IF para.spans # <<>> /\ para.spans[1].text # <<>> /\ first = <<>>
        THEN [m1 EXCEPT !.exc = "IndexError"]
        ELSE get_manual_style(
                IF one THEN [m1 EXCEPT !.state.para_char_fmt = pcf] ELSE m1,
                "paragraph", m1.ret, f3))

\* get_character_style(span); ret is the Style or NoStyle
get_character_style(m, span) ==
    LET f0 == get_span_format(m, span)
        fmt == IF f0 = m.state.para_char_fmt THEN NORMAL ELSE f0
    IN  Then(style(m, "character", span.wpid), LAMBDA m1 :
        IF ~m.args.manual /\ ~m.args.manual_light THEN m1
        ELSE get_manual_style(m1, "character", m1.ret, fmt))

-----------------------------------------------------------------------------
(* __init__.py: rules                                                      *)

\* str.lower() on the words that occur as realms and section prefixes
Lower(word) ==
    CASE word = "Paragraph" -> "paragraph"
      [] word = "Character" -> "character"
      [] word = "Table" -> "table"
      [] word \in {"Rule", "RULE"} -> "rule"
      [] OTHER -> word

\* The rule's "unless paragraph is empty" flag, read like the other fields
UnlessEmpty(kv) ==
    IF "unless_empty" \in DOMAIN kv THEN kv["unless_empty"] ELSE None

\* Rule(...): the fields absent from the section keep their default, None
NewRule(n, section_name, kv) ==
    [mnemonic |-> <<"R", ToString(n)>>,
     description |-> SubSeq(section_name, 3, Len(section_name)),
     turn_this |-> IF "turn_this" \in DOMAIN kv THEN kv["turn_this"] ELSE None,
     into_this |-> IF "into_this" \in DOMAIN kv THEN kv["into_this"] ELSE None,
     has_when_following |-> "when_following" \in DOMAIN kv,
     when_following |->
        IF "when_following" \in DOMAIN kv THEN kv["when_following"] ELSE None,
     when_first_in_doc |->
        IF "when_first_in_doc" \in DOMAIN kv THEN kv["when_first_in_doc"]
        ELSE None,
     unless_empty |-> UnlessEmpty(kv),
     turn_this_style |-> NoStyle, into_this_style |-> NoStyle,
     when_following_styles |-> <<>>, valid |-> TRUE, applied |-> 0]

\* section_name.lower().startswith("rule:")
IsRuleSection(name) == Len(name) >= 2 /\ Lower(name[1]) = "rule" /\ name[2] = ":"

RECURSIVE LoadRules(_, _)
LoadRules(secs, acc) ==
    IF secs = <<>> THEN acc
    ELSE LoadRules(Tail(secs),
            IF IsRuleSection(Head(secs).name)
            THEN Append(acc, NewRule(Len(acc) + 1, Head(secs).name, Head(secs).kv))
            ELSE acc)

load_rules(st) == LoadRules(st.sections, <<>>)

Punctuation == {"[", "]", ":", "/", "(", ")", " (", "<", ">"} \cup Whitespace

\* re.match(r"^\[(?P<realm>\w+):(?P<internal_name>.+)\]$", ini_ref)
RefMatches(ref) ==
    /\ Len(ref) >= 5
    /\ ref[1] = "[" /\ ref[2] \notin Punctuation /\ ref[3] = ":"
    /\ Last(ref) = "]"

RefRealm(ref) == Lower(ref[2])

RefInternalName(ref) == SubSeq(ref, 4, Len(ref) - 1)

\* re.findall(r"\[.*?\]", text)
RECURSIVE FindAllRefs(_)
FindAllRefs(text) ==
    IF text = <<>> THEN <<>>
    ELSE IF Head(text) = "[" /\ \E j \in 2..Len(text) : text[j] = "]"
    THEN LET j == CHOOSE k \in 2..Len(text) :
                    text[k] = "]" /\ \A l \in 2..(k - 1) : text[l] # "]"
         IN  <<SubSeq(text, 1, j)>> \o FindAllRefs(SubSeq(text, j + 1, Len(text)))
    ELSE FindAllRefs(Tail(text))

\* find_style_by_ini_ref; ret is the Style or NoStyle, exc is
\* "BadReferenceInRuleError" when the code raises it
find_style_by_ini_ref(m, ini_ref, required, inherit_from) ==
    LET realm == RefRealm(ini_ref)
        internal_name == RefInternalName(ini_ref)
        hit(i) == /\ Lower(m.heap[m.styles[i].obj].realm) = realm
                  /\ m.heap[m.styles[i].obj].internal_name = internal_name
    IN  IF ini_ref = None
        THEN IF required THEN [m EXCEPT !.exc = "BadReferenceInRuleError"]
             ELSE [m EXCEPT !.ret = NoStyle]
        ELSE IF ~RefMatches(ini_ref)
        THEN [m EXCEPT !.exc = "BadReferenceInRuleError"]
        ELSE IF \E i \in 1..Len(m.styles) : hit(i)
        THEN [m EXCEPT !.ret =
                m.styles[CHOOSE i \in 1..Len(m.styles) :
                    hit(i) /\ \A j \in 1..(i - 1) : ~hit(j)].obj]
        ELSE IF inherit_from = NoStyle
        THEN [m EXCEPT !.exc = "BadReferenceInRuleError"]
        ELSE add_style(m, realm, ini_ref, internal_name,
                [Kw EXCEPT !.parent_wpid = m.heap[inherit_from].wpid,
                           !.parent_style = inherit_from])

\* [find_style_by_ini_ref(ini_ref) for ini_ref in refs]; ret of the result is
\* unused, the styles found are in `found`
RECURSIVE FindAll(_, _, _)
FindAll(m, refs, found) ==
    IF refs = <<>> \/ m.exc # "" THEN [m |-> m, found |-> found]
    ELSE With(find_style_by_ini_ref(m, Head(refs), FALSE, NoStyle), LAMBDA r :
         FindAll(r, Tail(refs),
                 IF r.exc = "" /\ r.ret # NoStyle THEN Append(found, r.ret)
                 ELSE found))

\* A loop body whose handler swallows the exception and leaves rule.valid as
\* it was
LinkRule_keeping_valid(m, i) ==
    With(
        Then(find_style_by_ini_ref(m, m.rules[i].turn_this, TRUE, NoStyle),
             LAMBDA a :
        Then(find_style_by_ini_ref(
                [a EXCEPT !.rules[i].turn_this_style = a.ret],
                m.rules[i].into_this, TRUE, a.ret), LAMBDA b :
        [b EXCEPT !.rules[i].into_this_style = b.ret])),
        LAMBDA done : [done EXCEPT !.exc = ""])

\* The body of link_rules' loop for rule i: the try block, then the handler
LinkRule(m, i) ==
    With(
        Then(find_style_by_ini_ref(m, m.rules[i].turn_this, TRUE, NoStyle),
             LAMBDA a :
        Then(find_style_by_ini_ref(
                [a EXCEPT !.rules[i].turn_this_style = a.ret],
                m.rules[i].into_this, TRUE, a.ret), LAMBDA b :
        With([b EXCEPT !.rules[i].into_this_style = b.ret], LAMBDA m2 :
        IF ~m.rules[i].has_when_following THEN m2
        ELSE With(FindAll(m2, FindAllRefs(m.rules[i].when_following), <<>>),
                  LAMBDA c :
             Then(c.m, LAMBDA x :
             [x EXCEPT !.rules[i].when_following_styles = c.found]))))),
        LAMBDA done :
    IF done.exc = "BadReferenceInRuleError"
    THEN [done EXCEPT !.exc = "", !.rules[i].valid = FALSE]
    ELSE done)

RECURSIVE LinkRulesFrom(_, _)
LinkRulesFrom(m, i) ==
    IF i > Len(m.rules) \/ m.exc # "" THEN m
    ELSE LinkRulesFrom(LinkRule(m, i), i + 1)

link_rules(m) == LinkRulesFrom(m, 1)

\* IDocTextSource.is_empty: all(text == "" for text in self.text())
ParaIsEmpty(para) ==
    \A i \in 1..Len(para.spans) :
        \A j \in 1..Len(para.spans[i].text) : para.spans[i].text[j] = <<>>

\* a == b for two OptionalStyle values
SameStyle(m, a, b) ==
    a = b \/ (a # NoStyle /\ b # NoStyle /\ StyleEq(m.heap[a], m.heap[b]))

\* A rule_applies_to that does not look at when_first_in_doc
rule_applies_to_any_occurrence(m, rule, s, para) ==
    /\ rule.valid
    /\ ~(rule.unless_empty # None /\ ParaIsEmpty(para))
    /\ rule.turn_this_style = s
    /\ ~(/\ rule.when_following_styles # <<>>
         /\ \A k \in 1..Len(rule.when_following_styles) :
                ~SameStyle(m, rule.when_following_styles[k],
                           m.state.prev_para_style))

rule_applies_to(m, rule, s, para) ==
    /\ rule.valid
    /\ ~(rule.unless_empty # None /\ ParaIsEmpty(para))
    /\ rule.turn_this_style = s
    /\ ~(rule.when_first_in_doc # None /\ m.heap[s].count > 1)
    /\ ~(/\ rule.when_following_styles # <<>>
         /\ \A k \in 1..Len(rule.when_following_styles) :
                ~SameStyle(m, rule.when_following_styles[k],
                           m.state.prev_para_style))

\* A rule loop that keeps going after a match: the last applicable rule wins
LastRule(m, s, para) ==
    IF \E i \in 1..Len(m.rules) : rule_applies_to(m, m.rules[i], s, para)
    THEN CHOOSE i \in 1..Len(m.rules) :
            /\ rule_applies_to(m, m.rules[i], s, para)
            /\ \A j \in (i + 1)..Len(m.rules) :
                ~rule_applies_to(m, m.rules[j], s, para)
    ELSE 0

\* The index of the rule apply_rules_to applies to style s, or 0
FirstRule(m, s, para) ==
    IF \E i \in 1..Len(m.rules) : rule_applies_to(m, m.rules[i], s, para)
    THEN CHOOSE i \in 1..Len(m.rules) :
            /\ rule_applies_to(m, m.rules[i], s, para)
            /\ \A j \in 1..(i - 1) : ~rule_applies_to(m, m.rules[j], s, para)
    ELSE 0

\* apply_rules_to(para); ret is the Style or NoStyle.  The log records the
\* style get_paragraph_style resolved, the rule applied and the result.
apply_rules_to(m, para) ==
    Then(get_paragraph_style(m, para), LAMBDA m1 :
    With(m1.ret, LAMBDA s :
    With(IF s = NoStyle THEN 0 ELSE FirstRule(m1, s, para), LAMBDA i :
    [(IF i = 0 THEN m1
      ELSE [m1 EXCEPT !.rules[i].applied = @ + 1,
                      !.ret = m1.rules[i].into_this_style])
     EXCEPT !.log = Append(@,
        [wpid |-> para.wpid, fmt |-> para.fmt, resolved |-> s,
         rule |-> i,
         count |-> IF s = NoStyle THEN 0 ELSE m1.heap[s].count,
         applies |-> [r \in 1..Len(m1.rules) |->
                        s # NoStyle
                        /\ rule_applies_to(m1, m1.rules[r], s, para)],
         style |-> IF i = 0 THEN s ELSE m1.rules[i].into_this_style])])))

-----------------------------------------------------------------------------
(* __init__.py: the traversal                                              *)

State ==
    [curr_char_style |-> NoStyle, active_char_style |-> NoStyle,
     prev_para_style |-> NoStyle, is_empty |-> TRUE, is_post_empty |-> FALSE,
     is_post_break |-> FALSE, para_char_fmt |-> NORMAL]

\* str.find: the offset of the first occurrence of marker in text, or -1
Find(text, marker) ==
    LET at(i) == i + Len(marker) <= Len(text)
                 /\ SubSeq(text, i + 1, i + Len(marker)) = marker
    IN  IF \E i \in 0..Len(text) : at(i)
        THEN CHOOSE i \in 0..Len(text) : at(i) /\ \A j \in 0..(i - 1) : ~at(j)
        ELSE -1

do_write_text(m, text) ==
    IF text # <<>>
    THEN [proxy_write_text(m, text) EXCEPT
            !.state.active_char_style = m.state.curr_char_style]
    ELSE m

\* A write_text whose callback writes the text it was given, the part after
\* the marker included
write_text_untruncated(m, text) ==
    IF m.stop_marker = None \/ Find(text, m.stop_marker) < 0
    THEN do_write_text(m, text)
    ELSE [do_write_text(m, text) EXCEPT !.exc = "StopMarkerFoundError"]

write_text(m, text) ==
    IF m.stop_marker = None \/ Find(text, m.stop_marker) < 0
    THEN do_write_text(m, text)
    ELSE [do_write_text(m, SubSeq(text, 1, Find(text, m.stop_marker)))
            EXCEPT !.exc = "StopMarkerFoundError"]

switch_character_style(m, s) ==
    IF s # m.state.curr_char_style
    THEN Then(set_character_style(m, s),
              LAMBDA x : [x EXCEPT !.state.curr_char_style = s,
                                   !.ret = m.state.curr_char_style])
    ELSE [m EXCEPT !.ret = m.state.curr_char_style]

\* The loop of convert_span_text
RECURSIVE SpanTexts(_, _, _)
SpanTexts(m, texts, switched) ==
    IF texts = <<>> \/ m.exc # "" THEN m
    ELSE With(IF Head(texts) # <<>> /\ ~switched /\ m.state.is_empty
              THEN LStrip(Head(texts)) ELSE Head(texts), LAMBDA text :
         SpanTexts(
            Then(write_text(m, text), LAMBDA m1 :
                 IF ~IsSpace(text) THEN [m1 EXCEPT !.state.is_empty = FALSE]
                 ELSE m1),
            Tail(texts), switched))

convert_span_text(m, span) ==
    SpanTexts(m, span.text,
              ~SameStyle(m, m.state.curr_char_style, m.state.active_char_style))

RECURSIVE convert_paragraph(_, _, _)

\* The body of the with statement of convert_footnote
RECURSIVE FootnoteParas(_, _, _)
FootnoteParas(m, paras, default_style) ==
    IF paras = <<>> \/ m.exc # "" THEN m
    ELSE FootnoteParas(convert_paragraph(m, Head(paras), default_style),
                       Tail(paras), default_style)

\* A FootnoteContext whose __exit__ puts the writer back and closes the
\* footnote, but leaves the footnote's State in place
convert_footnote_keeping_state(m, footnote, ref_style, default_style) ==
    With(IF ref_style # NoStyle THEN ref_style
         ELSE m.special_styles.footnote_ref_style, LAMBDA ref :
    Then(activate_style(m, ref), LAMBDA m1 :
    Then(set_character_style(m1, ref), LAMBDA m2 :
    With([enter_footnote(m2) EXCEPT !.strip = Append(@, FALSE),
                                    !.state = State], LAMBDA m3 :
    With(FootnoteParas(m3, footnote, default_style), LAMBDA body :
    With(set_character_style(leave_footnote([body EXCEPT !.exc = ""]),
                             m.state.curr_char_style), LAMBDA e :
    [e EXCEPT !.strip = m.strip,
              !.exc = IF body.exc # "" THEN body.exc ELSE @]))))))

\* convert_footnote: FootnoteContext.__init__, the paragraphs, then __exit__,
\* which runs whether or not the body raised; the exception goes on after it
convert_footnote(m, footnote, ref_style, default_style) ==
    With(IF ref_style # NoStyle THEN ref_style
         ELSE m.special_styles.footnote_ref_style, LAMBDA ref :
    Then(activate_style(m, ref), LAMBDA m1 :
    Then(set_character_style(m1, ref), LAMBDA m2 :
    With([enter_footnote(m2) EXCEPT !.strip = Append(@, FALSE),
                                    !.state = State], LAMBDA m3 :
    With(FootnoteParas(m3, footnote, default_style), LAMBDA body :
    With(set_character_style(
            leave_footnote([body EXCEPT !.state = m2.state, !.exc = ""]),
            m.state.curr_char_style), LAMBDA e :
    [e EXCEPT !.strip = m.strip,
              !.exc = IF body.exc # "" THEN body.exc ELSE @]))))))

\* convert_comment, without a comment prefix
convert_comment(m, cmt) ==
    convert_footnote(m, cmt, m.special_styles.comment_ref_style,
                     m.special_styles.comment_style)

\* for footnote in span.footnotes()
RECURSIVE Footnotes(_, _)
Footnotes(m, notes) ==
    IF notes = <<>> \/ m.exc # "" THEN m
    ELSE Footnotes(
            Then(convert_footnote(m, Head(notes), NoStyle, NoStyle),
                 LAMBDA m1 : [m1 EXCEPT !.state.is_empty = FALSE]),
            Tail(notes))

\* for cmt in span.comments()
RECURSIVE Comments(_, _)
Comments(m, notes) ==
    IF notes = <<>> \/ m.exc # "" THEN m
    ELSE Comments(convert_comment(m, Head(notes)), Tail(notes))

convert_span(m, span) ==
    Then(get_character_style(m, span), LAMBDA m1 :
    Then(switch_character_style(m1, m1.ret), LAMBDA m2 :
    Then(convert_span_text(m2, span), LAMBDA m3 :
    Then(Footnotes(m3, span.footnotes), LAMBDA m4 :
    IF m.args.convert_comments THEN Comments(m4, span.comments) ELSE m4))))

RECURSIVE Chunks(_, _)
Chunks(m, spans) ==
    IF spans = <<>> \/ m.exc # "" THEN m
    ELSE Chunks(convert_span(m, Head(spans)), Tail(spans))

\* para.text(): every string of the paragraph, in order
RECURSIVE ParaText(_)
ParaText(spans) ==
    IF spans = <<>> THEN <<>> ELSE Head(spans).text \o ParaText(Tail(spans))

\* check_for_stop_paragraph: TRUE when the paragraph begins with the marker
RECURSIVE StopAtStart(_, _, _)
StopAtStart(chunks, text, marker) ==
    IF chunks = <<>> THEN FALSE
    ELSE LET t == text \o Head(chunks)
         IN  IF Len(t) >= Len(marker) /\ SubSeq(t, 1, Len(marker)) = marker
             THEN TRUE
             ELSE IF Len(t) >= Len(marker) THEN FALSE
             ELSE StopAtStart(Tail(chunks), t, marker)

check_for_stop_paragraph(m, para) ==
    IF StopAtStart(ParaText(para.spans), <<>>, m.stop_marker)
    THEN [m EXCEPT !.exc = "StopMarkerFoundError"]
    ELSE m

define_text_variable(m, variable) ==
    _write(m, [Item("DefineTextVariable") EXCEPT !.name = variable])

convert_paragraph(m, para, default_style) ==
    Then(IF m.stop_marker # None
         THEN check_for_stop_paragraph([m EXCEPT !.state.is_empty = TRUE], para)
         ELSE [m EXCEPT !.state.is_empty = TRUE], LAMBDA m1 :
    Then(apply_rules_to(m1, para), LAMBDA m2 :
    With(IF m2.ret # NoStyle THEN m2.ret ELSE default_style, LAMBDA s :
    Then(enter_paragraph(m2, s), LAMBDA m3 :
    Then(Chunks(m3, para.spans), LAMBDA m4 :
    Then(IF s # NoStyle /\ m4.heap[s].variable # None
         THEN define_text_variable(m4, m4.heap[s].variable) ELSE m4,
         LAMBDA m5 :
    Then(leave_paragraph(m5), LAMBDA m6 :
    With(IF para.page_break
         THEN [m6 EXCEPT !.state.is_post_break = TRUE,
                         !.state.is_empty = FALSE]
         ELSE IF m6.state.is_post_break /\ ~m6.state.is_empty
         THEN [m6 EXCEPT !.state.is_post_break = FALSE]
         ELSE m6, LAMBDA m7 :
    [m7 EXCEPT !.state.is_post_empty = m7.state.is_empty,
               !.state.prev_para_style = s]))))))))

RECURSIVE Cells(_, _)
Cells(m, cells) ==
    IF cells = <<>> \/ m.exc # "" THEN m
    ELSE LET m1 == enter_table_cell(m)
             m2 == convert_paragraph(m1, Head(cells), NoStyle)
         IN  Cells(Then(m2, LAMBDA x : leave_table_cell(x)), Tail(cells))

RECURSIVE Rows(_, _)
Rows(m, rows) ==
    IF rows = <<>> \/ m.exc # "" THEN m
    ELSE LET m1 == Cells(enter_table_row(m), Head(rows))
         IN  Rows(Then(m1, LAMBDA x : leave_table_row(x)), Tail(rows))

convert_table(m, table) ==
    Then(enter_paragraph(m, m.special_styles.table_paragraph_style),
         LAMBDA m1 :
    Then(style(m1, "table", table.wpid), LAMBDA m2 :
    Then(enter_table(m2, m2.ret), LAMBDA m3 :
    Then(Rows(m3, table.rows), LAMBDA m4 :
    Then(leave_table(m4), LAMBDA m5 :
    leave_paragraph(m5))))))

\* The loop of define_styles
RECURSIVE DefineFrom(_, _)
DefineFrom(m, i) ==
    IF i > Len(m.styles) \/ m.exc # "" THEN m
    ELSE DefineFrom(IF m.heap[m.styles[i].obj].used
                    THEN define_style(m, m.styles[i].obj) ELSE m, i + 1)

define_styles(m) == DefineFrom(m, 1)

\* InDesignTaggedTextOutput(...)
NewWriter ==
    [styles |-> <<>>, headers_written |-> FALSE,
     shades |-> [r \in Realms |-> 0], curr_char_style |-> NoStyle,
     in_table |-> FALSE, newly_newlined |-> FALSE, out |-> <<>>]

-----------------------------------------------------------------------------
(* The inputs: documents, command lines and settings files                 *)

ParaIds == {<<"A">>, <<"B">>}
CharId == <<"c">>
TableId == <<"t">>

Args(manual) ==
    [manual |-> manual, manual_light |-> FALSE, direction |-> "RTL",
     stop_at |-> None, convert_comments |-> FALSE]

\* One entry of doc.styles_defined(); parent is "absent" when the reader gives
\* no parent_wpid key at all (markdown), else the wpid or None (docx, odt)
Decl(realm, wpid, parent, next, custom, fmt) ==
    [realm |-> realm, internal_name |-> wpid, wpid |-> wpid,
     kw |-> [Kw EXCEPT !.has_parent_wpid = parent # <<"absent">>,
                       !.parent_wpid = IF parent = <<"absent">> THEN None
                                       ELSE parent,
                       !.next_wpid = next, !.custom = custom, !.fmt = fmt]]

\* A span with footnotes and comments, each a sequence of paragraphs
NoteSpan(wpid, fmt, text, footnotes, comments) ==
    [wpid |-> wpid, fmt |-> fmt, text |-> text, footnotes |-> footnotes,
     comments |-> comments]

Span(wpid, fmt, text) == NoteSpan(wpid, fmt, text, <<>>, <<>>)

Para(wpid, fmt, spans) ==
    [kind |-> "para", wpid |-> wpid, fmt |-> fmt, page_break |-> FALSE,
     spans |-> spans, rows |-> <<>>]

Table(wpid, rows) ==
    [kind |-> "table", wpid |-> wpid, fmt |-> NORMAL, page_break |-> FALSE,
     spans |-> <<>>, rows |-> rows]

PlainPara(wpid) == Para(wpid, NORMAL, <<Span(None, NORMAL, <<<<"x">>>>)>>)

\* doc.styles_in_use(): the styles the content names, then those named by
\* parts of the file that paragraphs() does not yield
RECURSIVE SpanMentions(_)
SpanMentions(spans) ==
    IF spans = <<>> THEN <<>>
    ELSE (IF Head(spans).wpid # None THEN <<<<"character", Head(spans).wpid>>>>
          ELSE <<>>) \o SpanMentions(Tail(spans))

RECURSIVE Flatten(_)
Flatten(ss) == IF ss = <<>> THEN <<>> ELSE Head(ss) \o Flatten(Tail(ss))

RECURSIVE Mentions(_)
Mentions(nodes) ==
    IF nodes = <<>> THEN <<>>
    ELSE LET n == Head(nodes)
             own == IF n.wpid = None THEN <<>>
                    ELSE IF n.kind = "table" THEN <<<<"table", n.wpid>>>>
                    ELSE <<<<"paragraph", n.wpid>>>>
         IN  own \o SpanMentions(n.spans) \o Mentions(Flatten(n.rows))
             \o Mentions(Tail(nodes))

Doc(decls, nodes, elsewhere, args) ==
    [styles_defined |-> decls, paragraphs |-> nodes,
     styles_in_use |-> Mentions(nodes) \o elsewhere, args |-> args]

CharDecl == Decl("character", CharId, None, None, PyNone, NORMAL)
TableDecl == Decl("table", TableId, None, None, PyNone, NORMAL)

\* Style-graph family: paragraph styles in every order, with every parent
\* and next among the declared ones
GraphDecls(order) ==
    {[i \in 1..Len(order) |->
        Decl("paragraph", order[i], c[i][1], c[i][2], PyNone, NORMAL)] :
     c \in [1..Len(order) ->
            ({<<"absent">>, None} \cup Range(order))
            \X ({None} \cup Range(order))]}

GraphDocs ==
    UNION {UNION {
        {Doc(decls, [i \in 1..Len(ps) |-> PlainPara(ps[i])], e, Args(FALSE)) :
            decls \in {d \in GraphDecls(order) :
                        \A i \in 1..Len(d) : d[i].kw.parent_wpid # d[i].wpid},
            ps \in SeqsUpTo({None} \cup Range(order), MaxParas),
            e \in {<<>>} \cup {<<<<"paragraph", x>>>> : x \in Range(order)}}
        : order \in Perms(S)} : S \in SUBSET ParaIds}

\* Content family: spans with a character style, and tables
ContentNodes ==
    {PlainPara(<<"A">>),
     Para(<<"A">>, NORMAL, <<Span(CharId, NORMAL, <<<<"x">>>>),
                             Span(None, NORMAL, <<<<"<", "y">>>>)>>),
     Table(TableId, <<<<PlainPara(<<"A">>), PlainPara(None)>>>>),
     Table(None, <<<<PlainPara(<<"B">>)>>>>)}

ContentDocs ==
    {Doc(<<Decl("paragraph", <<"A">>, None, <<"B">>, PyNone, NORMAL),
           Decl("paragraph", <<"B">>, <<"A">>, None, PyNone, NORMAL),
           CharDecl, TableDecl>>, nodes, <<>>, Args(FALSE)) :
        nodes \in SeqsUpTo(ContentNodes, MaxParas)}

\* Rules family: the settings file holds rule sections
Ref(realm, name) == <<"[", realm, ":">> \o name \o <<"]">>

RuleKv(turn, into, first, following) ==
    [k \in {"turn_this", "into_this"}
           \cup (IF first THEN {"when_first_in_doc"} ELSE {})
           \cup (IF following # None THEN {"when_following"} ELSE {}) |->
        CASE k = "turn_this" -> turn
          [] k = "into_this" -> into
          [] k = "when_following" -> following
          [] OTHER -> <<"yes">>]

\* A -> Opening (a style the rule creates), B -> A, and a rule whose source
\* is not a style of the document
RuleKvs ==
    {RuleKv(Ref("Paragraph", r[1]), Ref("Paragraph", r[2]), first, following) :
        r \in {<<<<"A">>, <<"Opening">>>>, <<<<"B">>, <<"A">>>>,
               <<<<"Zed">>, <<"Opening">>>>},
        first \in BOOLEAN,
        following \in {None, Ref("Paragraph", <<"B">>)}}

RuleFiles ==
    {[exists |-> TRUE, bak |-> FALSE,
      sections |-> [i \in 1..Len(kvs) |->
                      [name |-> <<"Rule", ":", ToString(i)>>, kv |-> kvs[i]]]] :
        kvs \in SeqsUpTo(RuleKvs, MaxRules) \ {<<>>}}

\* Paragraphs of style A or B, plain or centred by hand; manual formatting is
\* switched on for the documents that have a centred paragraph
RuleNodes ==
    {PlainPara(<<"A">>), PlainPara(<<"B">>),
     Para(<<"A">>, {"CENTERED"}, <<Span(None, NORMAL, <<<<"x">>>>)>>)}

RuleDocs ==
    {Doc(<<Decl("paragraph", <<"A">>, None, None, PyNone, NORMAL),
           Decl("paragraph", <<"B">>, <<"A">>, None, PyNone, NORMAL)>>,
         nodes, <<>>,
         Args(\E i \in 1..Len(nodes) : nodes[i].fmt # NORMAL)) :
        nodes \in SeqsUpTo(RuleNodes, MaxRuleParas)}

\* Manual-formatting family
ManualNodes ==
    {Para(w, f, <<Span(c, g, <<<<"x">>>>)>>) :
        w \in {None, <<"A">>}, f \in {NORMAL, {"CENTERED"}},
        c \in {None, CharId}, g \in {NORMAL, {"BOLD"}}}

ManualDocs ==
    {Doc(<<Decl("paragraph", <<"A">>, None, None, custom, fmt), CharDecl>>,
         nodes, <<>>, Args(TRUE)) :
        custom \in {PyNone, PyStr(<<"1">>)}, fmt \in {NORMAL, {"CENTERED"}},
        nodes \in SeqsUpTo(ManualNodes, MaxManualParas)}

NoFile == [exists |-> FALSE, bak |-> FALSE, sections |-> <<>>]

-----------------------------------------------------------------------------
(* The state machine                                                       *)

Self ==
    [args |-> doc.args, stop_marker |-> stop_marker, settings |-> settings,
     rules |-> rules, heap |-> heap, styles |-> styles,
     base_names |-> base_names, base_styles |-> base_styles,
     special_styles |-> special_styles, manual_styles |-> manual_styles,
     style_sections_used |-> style_sections_used, state |-> state,
     writer |-> writer, strip |-> <<>>, log |-> log, ret |-> NoStyle,
     exc |-> ""]

Commit(m) ==
    /\ stop_marker' = m.stop_marker
    /\ settings' = m.settings
    /\ rules' = m.rules
    /\ heap' = m.heap
    /\ styles' = m.styles
    /\ base_names' = m.base_names
    /\ base_styles' = m.base_styles
    /\ special_styles' = m.special_styles
    /\ manual_styles' = m.manual_styles
    /\ style_sections_used' = m.style_sections_used
    /\ state' = m.state
    /\ writer' = m.writer
    /\ log' = m.log

\* The object before read_settings
Fresh ==
    /\ idx = 1
    /\ stop_marker = None
    /\ settings = [sections |-> <<>>, touched |-> FALSE]
    /\ rules = <<>>
    /\ heap = <<>>
    /\ styles = <<>>
    /\ base_names = [r \in {} |-> None]
    /\ base_styles = [r \in {} |-> NoStyle]
    /\ special_styles = [r \in {} |-> NoStyle]
    /\ manual_styles = <<>>
    /\ style_sections_used = {}
    /\ state = State
    /\ writer = NewWriter
    /\ log = <<>>

Init ==
    /\ run = 1
    /\ pc = "read_settings"
    /\ \/ doc \in GraphDocs \cup ContentDocs \cup ManualDocs /\ file = NoFile
       \/ doc \in RuleDocs /\ file \in RuleFiles
    /\ Fresh

\* A step of run() that ends in state m: on to `next`, or the run dies
Step(m, next) ==
    /\ Commit(m)
    /\ pc' = IF m.exc = "" THEN next ELSE "error"
    /\ UNCHANGED <<doc, file, run>>

\* read_settings
read_settings(m) ==
    LET st == [sections |-> IF file.exists THEN ReadBack(file.sections) ELSE <<>>,
               touched |-> FALSE]
        st1 == ensure_section(st, <<"General">>)
        g == SecIndex(st1.sections, <<"General">>)
        config == st1.sections[g].kv
    IN  [m EXCEPT
            !.style_sections_used = {},
            !.rules = load_rules(st),
            !.settings =
                IF m.args.stop_at # None
                THEN [st1 EXCEPT !.sections[g].kv =
                        KvSet(config, "stop_marker", m.args.stop_at)]
                ELSE st1,
            !.stop_marker =
                IF m.args.stop_at # None THEN m.args.stop_at
                ELSE IF "stop_marker" \in DOMAIN config THEN config["stop_marker"]
                ELSE None]

ReadSettings ==
    /\ pc = "read_settings"
    /\ Step(read_settings(Self), "scan_style_definitions")
    /\ UNCHANGED idx

ScanStyleDefinitions ==
    /\ pc = "scan_style_definitions"
    /\ Step(scan_style_definitions(Self, doc), "scan_style_mentions")
    /\ UNCHANGED idx

ScanStyleMentions ==
    /\ pc = "scan_style_mentions"
    /\ Step(scan_style_mentions(Self, doc), "link_styles")
    /\ UNCHANGED idx

LinkStyles ==
    /\ pc = "link_styles"
    /\ Step(link_styles(Self), "link_rules")
    /\ UNCHANGED idx

LinkRules ==
    /\ pc = "link_rules"
    /\ Step(link_rules(Self), "define_styles")
    /\ UNCHANGED idx

\* write_idtt up to convert_document's loop
DefineStyles ==
    /\ pc = "define_styles"
    /\ Step(define_styles([Self EXCEPT !.state = State, !.writer = NewWriter]),
            "convert")
    /\ UNCHANGED idx

\* One turn of convert_document's loop; the stop marker ends the loop
Convert(m) ==
    /\ Commit([m EXCEPT !.exc = ""])
    /\ pc' = IF m.exc = "" THEN "convert"
             ELSE IF m.exc = "StopMarkerFoundError" THEN "write_output"
             ELSE "error"
    /\ idx' = idx + 1
    /\ UNCHANGED <<doc, file, run>>

ConvertParagraph ==
    /\ pc = "convert"
    /\ idx <= Len(doc.paragraphs)
    /\ doc.paragraphs[idx].kind = "para"
    /\ Convert(convert_paragraph(Self, doc.paragraphs[idx], NoStyle))

ConvertTable ==
    /\ pc = "convert"
    /\ idx <= Len(doc.paragraphs)
    /\ doc.paragraphs[idx].kind = "table"
    /\ Convert(convert_table(Self, doc.paragraphs[idx]))

\* The loop is over: write_output
WriteOutput ==
    /\ pc \in {"convert", "write_output"}
    /\ pc = "convert" => idx > Len(doc.paragraphs)
    /\ pc' = "write_settings"
    /\ UNCHANGED <<doc, file, run, idx, stop_marker, settings, rules, heap,
                   styles, base_names, base_styles, special_styles,
                   manual_styles, style_sections_used, state, writer, log>>

\* write_settings: SettingsFile.backup_and_write
WriteSettings ==
    /\ pc = "write_settings"
    /\ file' = [exists |-> TRUE,
                bak |-> settings.touched /\ file.exists,
                sections |-> settings.sections]
    /\ pc' = "done"
    /\ UNCHANGED <<doc, run, idx, stop_marker, settings, rules, heap, styles,
                   base_names, base_styles, special_styles, manual_styles,
                   style_sections_used, state, writer, log>>

\* The pipeline is run again on the same document
Rerun ==
    /\ pc = "done"
    /\ run < MaxRuns
    /\ run' = run + 1
    /\ pc' = "read_settings"
    /\ file' = [file EXCEPT !.bak = FALSE]
    /\ idx' = 1
    /\ stop_marker' = None
    /\ settings' = [sections |-> <<>>, touched |-> FALSE]
    /\ rules' = <<>>
    /\ heap' = <<>>
    /\ styles' = <<>>
    /\ base_names' = [r \in {} |-> None]
    /\ base_styles' = [r \in {} |-> NoStyle]
    /\ special_styles' = [r \in {} |-> NoStyle]
    /\ manual_styles' = <<>>
    /\ style_sections_used' = {}
    /\ state' = State
    /\ writer' = NewWriter
    /\ log' = <<>>
    /\ UNCHANGED doc

Next ==
    \/ ReadSettings
    \/ ScanStyleDefinitions
    \/ ScanStyleMentions
    \/ LinkStyles
    \/ LinkRules
    \/ DefineStyles
    \/ ConvertParagraph
    \/ ConvertTable
    \/ WriteOutput
    \/ WriteSettings
    \/ Rerun

Spec == Init /\ [][Next]_vars

-----------------------------------------------------------------------------
(* Properties of the emitted output                                        *)

Out == writer.out

IsDefine(i) == Out[i].t = "Define"

\* A definition block of the style called `name` in the realm of `mnem`
\* stands at position j
DefinesAt(j, mnem, name) ==
    IsDefine(j) /\ Out[j].mnem = mnem /\ Out[j].name = name

\* The declaration the document makes of style object s, if any
DeclOf(s) ==
    {d \in Range(doc.styles_defined) :
        d.realm = heap[s].realm /\ d.wpid = heap[s].wpid}

\* s is a used style whose declared parent is a declared style never marked
\* used
GhostParent(s) ==
    /\ heap[s].used
    /\ \E d \in DeclOf(s) :
        /\ d.kw.parent_wpid # None
        /\ StylesHas(styles, style_key(d.realm, d.kw.parent_wpid))
        /\ ~heap[StylesGet(styles, style_key(d.realm, d.kw.parent_wpid))].used

\* C1: every definition block with a BasedOn reference to Y comes after Y's
\* own definition block
C1_BasedOnDefinedEarlier ==
    \A i \in 1..Len(Out) :
        IsDefine(i) /\ Out[i].based_on # <<>>
        => \E j \in 1..(i - 1) : DefinesAt(j, Out[i].mnem, Out[i].based_on)

\* C2: no style has its definition block written twice
C2_WrittenAtMostOnce ==
    \A i, j \in 1..Len(Out) :
        IsDefine(i) /\ IsDefine(j) /\ Out[i].obj = Out[j].obj => i = j

\* A style that is already WRITTEN is entered again by a later paragraph
C2_Witness ==
    \E i, j, k \in 1..Len(Out) :
        /\ i < j /\ j < k
        /\ IsDefine(i)
        /\ Out[j].t = "ParaStyle" /\ Out[k].t = "ParaStyle"
        /\ Out[j].obj = Out[i].obj /\ Out[k].obj = Out[i].obj

\* Some paragraph of the document carries the style object s
CarriedByParagraph(s) ==
    \E k \in 1..Len(doc.paragraphs) :
        /\ doc.paragraphs[k].kind = "para"
        /\ doc.paragraphs[k].wpid = heap[s].wpid
        /\ heap[s].realm = "paragraph"

\* C3: a used style, carried by the first or by a later paragraph, whose
\* declared parent was never marked used is defined with a BasedOn reference
\* to the base style of its realm
C3_GhostParentBasedOnBase ==
    \A i \in 1..Len(Out) :
        IsDefine(i) /\ GhostParent(Out[i].obj) /\ CarriedByParagraph(Out[i].obj)
        => Out[i].based_on =
            _idname(heap[base_styles[heap[Out[i].obj].realm]].name)

\* C4: at the end of a run, a declared style that was never marked used has
\* no definition block and is named nowhere in the output
C4_UnusedStyleNotInOutput ==
    pc = "done"
    => \A d \in Range(doc.styles_defined) :
        StylesHas(styles, style_key(d.realm, d.wpid))
        => LET s == StylesGet(styles, style_key(d.realm, d.wpid))
           IN  ~heap[s].used
               => \A i \in 1..Len(Out) :
                    /\ Out[i].obj # s
                    /\ Out[i].name # _idname(heap[s].name)
                    /\ Out[i].based_on # _idname(heap[s].name)
                    /\ Out[i].next # _idname(heap[s].name)

C6_TagAfterDefinition ==
    \A i \in 1..Len(Out) :
        /\ Out[i].t \in {"ParaStyle", "CharStyle", "TableStyle"}
        /\ Out[i].name # <<>>
        => \E j \in 1..(i - 1) :
            /\ DefinesAt(j, Out[j].mnem, Out[i].name)
            /\ Out[j].mnem \o "Style" = Out[i].t

C6_Witness ==
    \E i, j, k \in 1..Len(Out) :
        /\ i < j /\ j < k
        /\ Out[i].t = "ParaStyle"
        /\ IsDefine(j)
        /\ Out[k].t \in {"ParaStyle", "CharStyle", "TableStyle"}
        /\ Out[k].obj = Out[j].obj

-----------------------------------------------------------------------------
(* Properties of the rules                                                 *)

SameSource(i, j) ==
    /\ rules[i].valid /\ rules[j].valid
    /\ rules[i].turn_this_style = rules[j].turn_this_style

\* The paragraphs so far to which rule j was applied
AppliedTo(j) == {k \in 1..Len(log) : log[k].rule = j}

\* Rule j has no predicate besides its source style
Unconditional(j) ==
    /\ rules[j].when_first_in_doc = None
    /\ rules[j].when_following_styles = <<>>
    /\ rules[j].unless_empty = None

\* Rule j has the first-occurrence-only flag and no other predicate
FirstOnly(j) ==
    /\ rules[j].valid
    /\ rules[j].when_first_in_doc # None
    /\ rules[j].when_following_styles = <<>>
    /\ rules[j].unless_empty = None

RECURSIVE ParaTags(_)
ParaTags(out) ==
    IF out = <<>> THEN <<>>
    ELSE (IF Head(out).t = "ParaStyle" THEN <<Head(out).name>> ELSE <<>>)
         \o ParaTags(Tail(out))

\* One first-occurrence-only rule A -> Opening, three plain paragraphs of
\* style A, converted to the end
ThreeBodies ==
    /\ pc = "done"
    /\ Len(rules) = 1 /\ FirstOnly(1)
    /\ rules[1].turn_this = Ref("Paragraph", <<"A">>)
    /\ doc.paragraphs = <<PlainPara(<<"A">>), PlainPara(<<"A">>),
                          PlainPara(<<"A">>)>>

\* C8 as stated: a first-occurrence-only rule is applied to the first
\* paragraph whose resolved style is its source style and to no other
C8_FirstOccurrenceOnly ==
    \A j \in 1..Len(rules) :
        FirstOnly(j)
        => \A k \in 1..Len(log) :
            log[k].rule = j
            <=> /\ log[k].resolved = rules[j].turn_this_style
                /\ \A l \in 1..(k - 1) :
                    log[l].resolved # rules[j].turn_this_style

\* C8, amended: a first-occurrence-only rule is applied to exactly the
\* paragraphs that resolve to its source style at the first lookup of that
\* style and to which no earlier rule applies, hence at most once; three
\* paragraphs of one style under that rule alone come out as Opening, Body,
\* Body with the counter at 1
C8_FirstLookupOnly ==
    /\ \A j \in 1..Len(rules) :
        FirstOnly(j)
        => /\ \A k \in 1..Len(log) :
                log[k].rule = j
                <=> /\ log[k].resolved = rules[j].turn_this_style
                    /\ log[k].count = 1
                    /\ \A i \in 1..(j - 1) : ~log[k].applies[i]
           /\ rules[j].applied <= 1
    /\ ThreeBodies
       => /\ ParaTags(Out) = <<<<"Opening">>, <<"A">>, <<"A">>>>
          /\ rules[1].applied = 1

C8_Witness == ThreeBodies /\ rules[1].applied = 1 /\ Len(log) = 3

-----------------------------------------------------------------------------
(* Properties of manual formatting and of the settings store               *)

\* C9: no two synthetic styles are created for one (format bits, base style
\* id) pair, and the registry holds the one style of each pair exactly once
C9_OneManualStylePerPair ==
    /\ \A a, b \in 1..Len(heap) :
        /\ heap[a].automatic /\ heap[b].automatic
        /\ heap[a].name = heap[b].name
        => a = b
    /\ \A i, j \in 1..Len(manual_styles) :
        manual_styles[i].key = manual_styles[j].key => i = j
    /\ \A i \in 1..Len(manual_styles) :
        Cardinality({k \in 1..Len(styles) :
                        styles[k].obj = manual_styles[i].obj}) = 1

\* Two paragraphs with the same base style and the same format bits resolved
\* to one synthetic style
C9_Witness ==
    \E k, l \in 1..Len(log) :
        /\ k < l
        /\ log[k].wpid = log[l].wpid /\ log[k].fmt = log[l].fmt
        /\ log[k].resolved # NoStyle
        /\ heap[log[k].resolved].automatic
        /\ log[k].resolved = log[l].resolved
        /\ Len(manual_styles) = 1

\* C10: at the end of a second run on the same input the settings store is
\* untouched and no backup has been written
C10_SecondRunUntouched ==
    run = 2 /\ pc = "done" => ~settings.touched /\ ~file.bak

-----------------------------------------------------------------------------
(* write_text on its own: two texts, drawn from every string over the      *)
(* reserved characters and a plain one, are written one after the other.   *)
(* The log keeps each text next to what reached the buffer for it.         *)

MaxText == 3

EscAlphabet == {"<", ">", "\\", "a"}

EscTexts == SeqsUpTo(EscAlphabet, MaxText)

EscDoc(texts) ==
    [styles_defined |-> <<>>, paragraphs |-> <<>>, styles_in_use |-> <<>>,
     args |-> Args(FALSE), texts |-> texts]

EscInit ==
    /\ run = 1
    /\ pc = "write_text"
    /\ file = NoFile
    /\ doc \in {EscDoc(<<a, b>>) : a, b \in EscTexts}
    /\ Fresh

WriteText ==
    /\ pc = "write_text"
    /\ idx <= Len(doc.texts)
    /\ Commit(With(write_text(Self, doc.texts[idx]), LAMBDA m :
            [m EXCEPT !.log = Append(@,
                [text |-> doc.texts[idx],
                 written |-> IF Len(m.writer.out) > Len(writer.out)
                             THEN Last(m.writer.out).text ELSE <<>>])]))
    /\ idx' = idx + 1
    /\ UNCHANGED <<doc, file, run, pc>>

EscNext == WriteText

EscSpec == EscInit /\ [][EscNext]_vars

\* The reader's side of the escaping: a backslash in front of a bracket
\* stands for the bracket, everything else for itself
RECURSIVE Unescape(_)
Unescape(s) ==
    IF s = <<>> THEN <<>>
    ELSE IF Head(s) = "\\" /\ Len(s) >= 2 /\ s[2] \in {"<", ">"}
    THEN <<s[2]>> \o Unescape(SubSeq(s, 3, Len(s)))
    ELSE <<Head(s)>> \o Unescape(Tail(s))

\* C11: what write_text puts in the buffer for a text decodes back to that
\* text, and two different texts never put the same string in the buffer
C11_EscapeInvertible ==
    /\ \A i \in 1..Len(log) : Unescape(log[i].written) = log[i].text
    /\ \A i, j \in 1..Len(log) :
        log[i].written = log[j].written => log[i].text = log[j].text

\* Two different texts were written, one of them with a backslash of its own
\* right in front of a bracket
C11_Witness ==
    /\ Len(log) = 2
    /\ log[1].text # log[2].text
    /\ \E i \in 1..2 : \E k \in 1..(Len(log[i].text) - 1) :
        log[i].text[k] = "\\" /\ log[i].text[k + 1] \in {"<", ">"}

-----------------------------------------------------------------------------
(* A second set of inputs for the same pipeline: empty paragraphs and page *)
(* breaks under manual formatting.                                         *)

MaxSpacedParas == 3    \* paragraphs of a document of the spacing family

EmptyPara == Para(None, NORMAL, <<>>)

SpacePara == Para(None, NORMAL, <<Span(None, NORMAL, <<<<" ">>>>)>>)

\* A paragraph for which is_page_break() is true
BreakPara == [Para(None, NORMAL, <<>>) EXCEPT !.page_break = TRUE]

SpacedNodes ==
    {PlainPara(None), PlainPara(<<"A">>),
     Para(<<"A">>, {"SPACED"}, <<Span(None, NORMAL, <<<<"x">>>>)>>),
     EmptyPara, SpacePara, BreakPara}

SpacedDocs ==
    {Doc(<<Decl("paragraph", <<"A">>, None, None, PyNone, fmt)>>,
         nodes, <<>>, Args(TRUE)) :
        fmt \in {NORMAL, {"SPACED"}},
        nodes \in SeqsUpTo(SpacedNodes, MaxSpacedParas)}

\* Rule sections with any of the three references left out
RuleSection(turn, into, following) ==
    [k \in (IF turn # None THEN {"turn_this"} ELSE {})
           \cup (IF into # None THEN {"into_this"} ELSE {})
           \cup (IF following # None THEN {"when_following"} ELSE {}) |->
        CASE k = "turn_this" -> turn
          [] k = "into_this" -> into
          [] OTHER -> following]

\* Two well-formed rules, each alone, restricted to paragraphs after B, or
\* with a when_following that holds no bracketed reference; and rules whose
\* source is not a style of the document, is missing or is malformed, and
\* whose target is missing or malformed
BadRuleKvs ==
    {RuleSection(Ref("Paragraph", r[1]), Ref("Paragraph", r[2]), following) :
        r \in {<<<<"A">>, <<"Opening">>>>, <<<<"B">>, <<"A">>>>},
        following \in {None, Ref("Paragraph", <<"B">>), <<"B">>}}
    \cup {RuleSection(Ref("Paragraph", <<"Zed">>), Ref("Paragraph", <<"A">>),
                      None),
          RuleSection(None, Ref("Paragraph", <<"A">>), None),
          RuleSection(<<"A">>, Ref("Paragraph", <<"B">>), None),
          RuleSection(Ref("Paragraph", <<"A">>), None, None),
          RuleSection(Ref("Paragraph", <<"B">>), <<"Paragraph", ":", "A">>,
                      None)}

BadRuleFiles ==
    {[exists |-> TRUE, bak |-> FALSE,
      sections |-> [i \in 1..Len(kvs) |->
                      [name |-> <<"Rule", ":", ToString(i)>>, kv |-> kvs[i]]]] :
        kvs \in SeqsUpTo(BadRuleKvs, MaxRules) \ {<<>>}}

BadRuleDocs ==
    {Doc(<<Decl("paragraph", <<"A">>, None, None, PyNone, NORMAL),
           Decl("paragraph", <<"B">>, <<"A">>, None, PyNone, NORMAL)>>,
         [i \in 1..Len(ps) |-> PlainPara(ps[i])], <<>>, Args(FALSE)) :
        ps \in SeqsUpTo(ParaIds, MaxRuleParas)}

\* Declarations whose realm is none of the three the converter knows, with
\* the parent key absent (markdown) or present and empty (docx), mentioned
\* by the content or not
ListId == <<"L">>

RealmDocs ==
    {Doc(decls, nodes, elsewhere, Args(FALSE)) :
        decls \in UNION {
            {<<Decl("paragraph", <<"A">>, None, None, PyNone, NORMAL),
               Decl(realm, ListId, parent, None, PyNone, NORMAL)>>,
             <<Decl(realm, ListId, parent, None, PyNone, NORMAL),
               Decl("paragraph", <<"A">>, None, None, PyNone, NORMAL)>>} :
            realm \in {"numbering", "character"},
            parent \in {<<"absent">>, None}},
        nodes \in SeqsUpTo({PlainPara(<<"A">>)}, 1),
        elsewhere \in {<<>>} \cup
            {<<<<realm, ListId>>>> : realm \in {"numbering", "character"}}}

\* Documents that declare the same (realm, wpid) twice, or declare a style
\* under the id of the base paragraph style
DupDocs ==
    {Doc(<<Decl("paragraph", <<"A">>, None, None, PyNone, NORMAL),
           Decl("paragraph", again, None, next, PyNone, NORMAL)>>,
         nodes, <<>>, Args(FALSE)) :
        again \in {<<"A">>, <<"B">>, BaseParagraphStyle},
        next \in {None, <<"A">>},
        nodes \in SeqsUpTo({PlainPara(<<"A">>), PlainPara(None)}, MaxParas)}

\* Settings family: the settings file holds a section for paragraph style A,
\* with any of the writable keys and, or not, keys named after the other
\* fields; every stored value differs from what the document declares
StructuralKeys ==
    {"wpid (readonly)", "parent_wpid (readonly)", "next_wpid (readonly)",
     "automatic (readonly)", "custom (readonly)", "fmt (readonly)",
     "wpid", "parent_wpid", "next_wpid", "fmt"}

SectionFiles ==
    {[exists |-> TRUE, bak |-> FALSE,
      sections |-> <<[name |-> <<"Paragraph", ":", "A">>,
                      kv |-> [k \in W \cup R |->
                                IF k = "idtt" THEN <<"<cSize:6>">>
                                ELSE <<"Z">>]]>>] :
        W \in SUBSET {"name", "idtt", "variable"},
        R \in {{}, StructuralKeys}}

SectionDocs ==
    {Doc(<<Decl("paragraph", <<"A">>, parent, next, custom, fmt),
           Decl("paragraph", <<"B">>, None, None, PyNone, NORMAL)>>,
         nodes, <<>>, Args(FALSE)) :
        parent \in {None, <<"B">>}, next \in {None, <<"B">>},
        custom \in {PyNone, PyStr(<<"1">>)}, fmt \in {NORMAL, {"CENTERED"}},
        nodes \in SeqsUpTo({PlainPara(<<"A">>)}, 1)}

\* Stop-marker family: the command line gives a marker of two characters;
\* the marker stands at the start of a paragraph (in one chunk or split over
\* two), inside a chunk, in a second span, in a table cell, or nowhere
MaxStopParas == 3      \* nodes of a document of the stop-marker family

Marker == <<"#", "#">>

TextPara(chunks) == Para(None, NORMAL, <<Span(None, NORMAL, chunks)>>)

StopNodes ==
    {TextPara(<<<<"x">>>>),
     TextPara(<<<<"#", "x">>>>),
     TextPara(<<<<"x", "#", "#", "x">>>>),
     TextPara(<<<<"#", "#", "x">>>>),
     TextPara(<<<<"#">>, <<"#", "x">>>>),
     Para(None, NORMAL, <<Span(None, NORMAL, <<<<"x">>>>),
                         Span(None, NORMAL, <<<<"y", "#", "#">>>>)>>),
     Table(None, <<<<TextPara(<<<<"x">>>>),
                    TextPara(<<<<"x", "#", "#", "x">>>>)>>>>),
     Table(None, <<<<TextPara(<<<<"x">>>>)>>>>)}

StopDocs ==
    {Doc(<<>>, nodes, <<>>, [Args(FALSE) EXCEPT !.stop_at = Marker]) :
        nodes \in SeqsUpTo(StopNodes, MaxStopParas)}

\* Footnote family: a paragraph of style A whose first span, with or without
\* a character style, holds one or two footnotes or a comment, followed by a
\* span that starts with a blank; the footnotes' paragraphs have style F and
\* are empty, plain, in a character style, led by a blank, or hold the stop
\* marker.  The run is with or without stop marker.
FootId == <<"F">>

FootPara(c, text) == Para(FootId, NORMAL, <<Span(c, NORMAL, <<text>>)>>)

FootParas ==
    {Para(FootId, NORMAL, <<>>),
     FootPara(None, <<"n">>), FootPara(CharId, <<"n">>),
     FootPara(None, <<" ", "n">>), FootPara(None, <<"n", "#", "#", "n">>)}

FootNotes ==
    {<<p>> : p \in FootParas} \cup {<<p, q>> : p, q \in FootParas}

NotedParas ==
    {Para(<<"A">>, NORMAL,
          <<NoteSpan(c, NORMAL, <<<<"x">>>>, notes, <<>>),
            Span(None, NORMAL, <<<<" ", "y">>>>)>>) :
        c \in {None, CharId},
        notes \in {<<f>> : f \in FootNotes}
                  \cup {<<<<p>>, <<q>>>> : p, q \in FootParas}}
    \cup
    {Para(<<"A">>, NORMAL,
          <<NoteSpan(c, NORMAL, <<<<"x">>>>, <<>>, <<<<p>>>>),
            Span(None, NORMAL, <<<<" ", "y">>>>)>>) :
        c \in {None, CharId}, p \in FootParas}

FootDocs ==
    {Doc(<<Decl("paragraph", <<"A">>, None, None, PyNone, NORMAL),
           Decl("paragraph", FootId, None, None, PyNone, NORMAL), CharDecl>>,
         nodes, <<<<"paragraph", FootId>>, <<"character", CharId>>>>,
         [Args(FALSE) EXCEPT !.stop_at = stop, !.convert_comments = TRUE]) :
        nodes \in UNION {{<<p>>, <<p, PlainPara(<<"A">>)>>,
                          <<PlainPara(<<"A">>), p>>} : p \in NotedParas},
        stop \in {None, Marker}}

\* Documents whose paragraph style A names, as parent or next, an id that no
\* declaration of the paragraph realm carries: G is declared nowhere, c only
\* as a character style; a paragraph may be of style G
GhostId == <<"G">>

GhostDocs ==
    {Doc(<<Decl("paragraph", <<"A">>, parent, next, PyNone, NORMAL), CharDecl>>,
         nodes, <<>>, Args(FALSE)) :
        parent \in {None, GhostId, CharId},
        next \in {None, GhostId, CharId},
        nodes \in SeqsUpTo({PlainPara(<<"A">>), PlainPara(None),
                            PlainPara(GhostId)}, MaxParas)}

\* Manual-formatting documents whose paragraphs hold one span or two spans of
\* different formats, with or without a character style
MixedParas ==
    {Para(None, NORMAL, <<Span(c, {"BOLD"}, <<<<"x">>>>)>>) :
        c \in {None, CharId}}
    \cup
    {Para(None, NORMAL, <<Span(c, {"BOLD"}, <<<<"x">>>>),
                          Span(None, NORMAL, <<<<"y">>>>)>>) :
        c \in {None, CharId}}

MixedDocs ==
    {Doc(<<Decl("paragraph", <<"A">>, None, None, PyNone, NORMAL), CharDecl>>,
         nodes, <<>>, Args(TRUE)) :
        nodes \in SeqsUpTo(MixedParas, MaxParas)}

Init2 ==
    /\ run = 1
    /\ pc = "read_settings"
    /\ \/ doc \in SpacedDocs /\ file = NoFile
       \/ doc \in BadRuleDocs /\ file \in BadRuleFiles
       \/ doc \in RealmDocs \cup DupDocs \cup StopDocs \cup FootDocs
                   \cup GhostDocs \cup MixedDocs
          /\ file = NoFile
       \/ doc \in SectionDocs /\ file \in SectionFiles
    /\ Fresh

Spec2 == Init2 /\ [][Next]_vars

-----------------------------------------------------------------------------
(* Properties of the traversal state                                       *)

\* The document is a plain sequence of paragraphs, so that log[k] is the
\* entry of doc.paragraphs[k]
FlatDoc == \A k \in 1..Len(doc.paragraphs) : doc.paragraphs[k].kind = "para"

\* Paragraph k puts no visible text in the output
NoVisibleText(k) ==
    \A i \in 1..Len(doc.paragraphs[k].spans) :
        \A j \in 1..Len(doc.paragraphs[k].spans[i].text) :
            LET text == doc.paragraphs[k].spans[i].text[j]
            IN  text = <<>> \/ IsSpace(text)

\* Paragraph k comes right after a paragraph without visible text
AfterEmpty(k) == k > 1 /\ NoVisibleText(k - 1)

\* The format bits a style stands for: those of its key and of its base style
\* when it is a synthetic style, its own otherwise
Bits(s) ==
    IF \E i \in 1..Len(manual_styles) : manual_styles[i].obj = s
    THEN LET key == manual_styles[
                CHOOSE i \in 1..Len(manual_styles) :
                    manual_styles[i].obj = s].key
         IN  key.fmt \cup
             (IF key.unadorned = None THEN NORMAL
              ELSE heap[StylesGet(styles,
                        style_key("paragraph", key.unadorned))].fmt)
    ELSE heap[s].fmt

\* No paragraph of the document is a page break
NoPageBreak == \A k \in 1..Len(doc.paragraphs) : ~doc.paragraphs[k].page_break

\* C12, on documents without page breaks: in manual mode a paragraph that
\* follows a paragraph without visible text resolves to a style whose format
\* bits include SPACED
C12_SpacedAfterEmpty ==
    doc.args.manual /\ FlatDoc /\ NoPageBreak
    => \A k \in 1..Len(log) :
        AfterEmpty(k)
        => log[k].resolved # NoStyle /\ "SPACED" \in Bits(log[k].resolved)

-----------------------------------------------------------------------------
(* Properties of the rules                                                 *)

\* The names a reference of the rule sections may hold
RefNames == {<<"A">>, <<"B">>, <<"Opening">>, <<"Zed">>}

\* ref is a bracketed reference to a paragraph style
WellFormed(ref) == \E n \in RefNames : ref = Ref("Paragraph", n)

\* ref names a paragraph style the document declares
Declared(ref) ==
    \E i \in 1..Len(doc.styles_defined) :
        /\ doc.styles_defined[i].realm = "paragraph"
        /\ ref = Ref("Paragraph", doc.styles_defined[i].internal_name)

\* link_rules is over
Linked ==
    pc \notin {"read_settings", "scan_style_definitions",
               "scan_style_mentions", "link_styles", "link_rules"}

\* Rule j never matched a paragraph
NeverMatched(j) ==
    rules[j].applied = 0 /\ \A k \in 1..Len(log) : log[k].rule # j

\* C13 as stated: a rule whose source or target is missing, malformed or
\* names no style of the document is invalid and never matches
C13_BadRuleInvalid ==
    Linked => \A j \in 1..Len(rules) :
        (\/ ~(WellFormed(rules[j].turn_this) /\ Declared(rules[j].turn_this))
         \/ ~(WellFormed(rules[j].into_this) /\ Declared(rules[j].into_this)))
        => ~rules[j].valid /\ NeverMatched(j)

\* C13: a run with rules never aborts; after linking a rule is valid exactly
\* when its own source is a well-formed reference to a declared style and its
\* own target is a well-formed reference (a target that names no style is
\* created as a child of the source), whatever the other rules are; an
\* invalid rule never matches, and each paragraph takes the first rule that
\* applies to it
C13_BadRuleInvalidUnlessCreated ==
    /\ rules # <<>> => pc # "error"
    /\ Linked => \A j \in 1..Len(rules) :
        rules[j].valid <=>
            /\ WellFormed(rules[j].turn_this) /\ Declared(rules[j].turn_this)
            /\ WellFormed(rules[j].into_this)
    /\ \A j \in 1..Len(rules) : ~rules[j].valid => NeverMatched(j)
    /\ \A k \in 1..Len(log) : \A j \in 1..Len(log[k].applies) :
        log[k].rule = j <=>
            log[k].applies[j] /\ \A i \in 1..(j - 1) : ~log[k].applies[i]

\* The run is over; an invalid rule stands before a rule that matched, and
\* a rule whose target was created matched as well
C13_Witness ==
    /\ pc = "done"
    /\ \E i, j \in 1..Len(rules) :
        /\ i < j /\ ~rules[i].valid /\ rules[j].valid
        /\ rules[j].applied > 0
        /\ ~Declared(rules[j].into_this)

\* sub occurs in text
Occurs(sub, text) ==
    \E i \in 1..(Len(text) - Len(sub) + 1) :
        SubSeq(text, i, i + Len(sub) - 1) = sub

\* The styles the when_following setting of rule j refers to
Referenced(j) ==
    {s \in 1..Len(heap) :
        /\ heap[s].realm = "paragraph"
        /\ Occurs(Ref("Paragraph", heap[s].internal_name),
                  rules[j].when_following)}

\* C14: a rule that has a when_following setting is applied to a paragraph
\* only if there is a previous paragraph and its style, after substitution,
\* is one of the styles the setting refers to
C14_FollowingRequired ==
    FlatDoc => \A k \in 1..Len(log) :
        log[k].rule # 0 /\ rules[log[k].rule].has_when_following
        => k > 1 /\ log[k - 1].style \in Referenced(log[k].rule)

-----------------------------------------------------------------------------
(* Properties of the registry                                              *)

\* The document declares a style whose realm the converter does not know
DeclaresUnknownRealm ==
    \E i \in 1..Len(doc.styles_defined) :
        doc.styles_defined[i].realm \notin Realms

\* C15: a run on a document that declares a style of an unknown realm never
\* dies of an error
C15_UnknownRealmCompletes == DeclaresUnknownRealm => pc # "error"

\* C16: the registry holds, under each (realm, wpid), the first Style object
\* created for that (realm, wpid), and the base styles are objects of the
\* registry
C16_FirstDeclarationKept ==
    /\ \A i \in 1..Len(styles) : \A o \in 1..(styles[i].obj - 1) :
        ~(heap[o].realm = styles[i].key[1] /\ heap[o].wpid = styles[i].key[2])
    /\ \A r \in DOMAIN base_styles :
        \E i \in 1..Len(styles) : styles[i].obj = base_styles[r]

\* The settings file holds a section for paragraph style A
HasSectionA ==
    /\ Len(file.sections) = 1
    /\ file.sections[1].name = <<"Paragraph", ":", "A">>

\* The declarations are over
Declared1 == pc \notin {"read_settings", "scan_style_definitions"}

\* C17: the Style declared for A takes name, idtt and variable from the
\* settings section when the section has the key, and from the document
\* otherwise; wpid, next_wpid, automatic, custom and fmt are the document's
\* whatever the section holds, and so is parent_wpid when the declaration
\* ends
C17_OnlyWritableOverridden ==
    HasSectionA /\ Declared1 =>
        LET kv == file.sections[1].kv
            d == doc.styles_defined[1]
            a == heap[StylesGet(styles, style_key("paragraph", <<"A">>))]
        IN  /\ a.name = IF "name" \in DOMAIN kv THEN kv["name"]
                        ELSE d.internal_name
            /\ a.idtt = IF "idtt" \in DOMAIN kv THEN kv["idtt"]
                        ELSE d.kw.idtt
            /\ a.variable = IF "variable" \in DOMAIN kv THEN kv["variable"]
                            ELSE d.kw.variable
            /\ a.wpid = d.wpid
            /\ a.next_wpid = d.kw.next_wpid
            /\ a.automatic = d.kw.automatic
            /\ a.custom = d.kw.custom
            /\ a.fmt = d.kw.fmt
            /\ pc = "scan_style_mentions" => a.parent_wpid = d.kw.parent_wpid

\* A was declared with a section that holds a name and the structural keys:
\* the name is the section's, the declared parent and format are kept
C17_Witness ==
    /\ HasSectionA /\ pc = "scan_style_mentions"
    /\ StructuralKeys \cup {"name"} \subseteq DOMAIN file.sections[1].kv
    /\ LET a == heap[StylesGet(styles, style_key("paragraph", <<"A">>))]
       IN  a.name = <<"Z">> /\ a.parent_wpid = <<"B">>
           /\ a.fmt = {"CENTERED"}

-----------------------------------------------------------------------------
(* Properties of the synthetic styles                                      *)

\* Style s is a synthetic style made without a base style
SyntheticWithoutBase(s) ==
    \E i \in 1..Len(manual_styles) :
        manual_styles[i].obj = s /\ manual_styles[i].key.unadorned = None

\* C18: in manual mode a paragraph whose own style is not a custom style of
\* the document resolves as a paragraph without style does, to a synthetic
\* style keyed without base
C18_NonCustomBaseDiscarded ==
    doc.args.manual =>
        \A k \in 1..Len(log) :
            /\ log[k].wpid # None
            /\ StylesHas(styles, style_key("paragraph", log[k].wpid))
            /\ ~Truthy(heap[StylesGet(styles,
                    style_key("paragraph", log[k].wpid))].custom)
            => SyntheticWithoutBase(log[k].resolved)

\* The key of the single unformatted style
Unformatted == [fmt |-> NORMAL, unadorned |-> None]

\* Style s is the unformatted style of the synthetic styles ms
IsUnformatted(ms, s) ==
    \E i \in 1..Len(ms) : ms[i].obj = s /\ ms[i].key = Unformatted

\* C19: in manual mode every paragraph resolves to a style with a name; and
\* at any point of the conversion, a request whose bits are all bits of its
\* base style (or that has no bits and no base) gives, in the character
\* realm, the base itself and no new style, and in the paragraph realm the
\* base when there is one and otherwise the one unformatted style
C19_EmptyBitsResolve ==
    /\ doc.args.manual =>
        \A k \in 1..Len(log) :
            log[k].resolved # NoStyle /\ heap[log[k].resolved].name # <<>>
    /\ doc.args.manual /\ pc = "convert" =>
        \A s \in {NoStyle} \cup {styles[i].obj : i \in 1..Len(styles)} :
        \A fmt \in {NORMAL} \cup (IF s = NoStyle THEN {} ELSE {heap[s].fmt}) :
            LET c == get_manual_style(Self, "character", s, fmt)
                p == get_manual_style(Self, "paragraph", s, fmt)
            IN  /\ c.exc = "" /\ c.ret = s
                /\ c.heap = heap /\ c.manual_styles = manual_styles
                /\ p.exc = "" /\ p.ret # NoStyle
                /\ s # NoStyle =>
                    p.ret = s /\ p.heap = heap
                    /\ p.manual_styles = manual_styles
                /\ s = NoStyle =>
                    /\ IsUnformatted(p.manual_styles, p.ret)
                    /\ get_manual_style(p, "paragraph", NoStyle, NORMAL).ret
                        = p.ret

\* In manual mode one paragraph resolved to the unformatted style and
\* another, that has a style and no bits beyond it, to that style
C19_Witness ==
    /\ doc.args.manual /\ pc = "convert"
    /\ \E j, k \in 1..Len(log) :
        /\ log[j].wpid = None /\ IsUnformatted(manual_styles, log[j].resolved)
        /\ log[k].wpid # None
        /\ log[k].resolved =
            StylesGet(styles, style_key("paragraph", log[k].wpid))

-----------------------------------------------------------------------------
(* Properties of the stop marker                                           *)

\* The part of text before the first occurrence of the marker
BeforeMarker(text) ==
    SubSeq(text, 1,
        (CHOOSE i \in 1..Len(text) :
            /\ SubSeq(text, i, i + Len(Marker) - 1) = Marker
            /\ \A j \in 1..(i - 1) :
                SubSeq(text, j, j + Len(Marker) - 1) # Marker) - 1)

\* A text without its blanks
NoBlanks(text) == SelectSeq(text, LAMBDA c : c \notin Whitespace)

\* What a traversal that ends at the marker leaves in the output: a <<"P">>
\* for each paragraph begun and the texts written, blanks apart, in order;
\* `stop` tells that the marker was met.  A table is the paragraph that holds
\* it followed by the paragraphs of its cells; the footnotes and comments of
\* a span come after its texts.
RECURSIVE EvParas(_)
RECURSIVE EvSpans(_)
RECURSIVE EvTexts(_)
RECURSIVE EvNotes(_)
EvTexts(chunks) ==
    IF chunks = <<>> THEN [ev |-> <<>>, stop |-> FALSE]
    ELSE IF Occurs(Marker, Head(chunks))
    THEN [ev |-> IF NoBlanks(BeforeMarker(Head(chunks))) = <<>> THEN <<>>
                 ELSE <<NoBlanks(BeforeMarker(Head(chunks)))>>,
          stop |-> TRUE]
    ELSE LET rest == EvTexts(Tail(chunks))
         IN  [rest EXCEPT !.ev =
                (IF NoBlanks(Head(chunks)) = <<>> THEN <<>>
                 ELSE <<NoBlanks(Head(chunks))>>) \o @]

EvNotes(notes) ==
    IF notes = <<>> THEN [ev |-> <<>>, stop |-> FALSE]
    ELSE LET a == EvParas(Head(notes))
             rest == EvNotes(Tail(notes))
         IN  IF a.stop THEN a ELSE [rest EXCEPT !.ev = a.ev \o @]

EvSpans(spans) ==
    IF spans = <<>> THEN [ev |-> <<>>, stop |-> FALSE]
    ELSE LET a == EvTexts(Head(spans).text)
             b == EvNotes(Head(spans).footnotes
                          \o IF doc.args.convert_comments
                             THEN Head(spans).comments ELSE <<>>)
             rest == EvSpans(Tail(spans))
         IN  IF a.stop THEN a
             ELSE IF b.stop THEN [b EXCEPT !.ev = a.ev \o @]
             ELSE [rest EXCEPT !.ev = a.ev \o b.ev \o @]

EvParas(paras) ==
    IF paras = <<>> THEN [ev |-> <<>>, stop |-> FALSE]
    ELSE LET para == Head(paras)
             all == Flatten(ParaText(para.spans))
             a == IF para.kind = "table" THEN EvParas(Flatten(para.rows))
                  ELSE EvSpans(para.spans)
             rest == EvParas(Tail(paras))
         IN  IF Len(all) >= Len(Marker) /\ SubSeq(all, 1, Len(Marker)) = Marker
             THEN [ev |-> <<>>, stop |-> TRUE]
             ELSE IF a.stop THEN [a EXCEPT !.ev = <<<<"P">>>> \o @]
             ELSE [rest EXCEPT !.ev = <<<<"P">>>> \o a.ev \o @]

Events(nodes) == EvParas(nodes).ev

\* The paragraphs begun and the texts written so far, read off the buffer
RECURSIVE Written(_)
Written(out) ==
    IF out = <<>> THEN <<>>
    ELSE (IF Head(out).t = "ParaStyle" THEN <<<<"P">>>>
          ELSE IF Head(out).t = "Text" /\ NoBlanks(Head(out).text) # <<>>
          THEN <<NoBlanks(Head(out).text)>>
          ELSE <<>>) \o Written(Tail(out))

IsPrefix(a, b) == Len(a) <= Len(b) /\ SubSeq(b, 1, Len(a)) = a

\* The traversal is over
Traversed == pc \in {"write_output", "write_settings", "done"}

\* C20: with a stop marker the run never dies; what is in the buffer is
\* always the beginning of, and after the traversal exactly, the paragraphs
\* and texts up to the marker: nothing that follows the marker, the text
\* before it in its chunk included; and a traversal that met the marker goes
\* on to write_output
C20_NothingAfterMarker ==
    doc.args.stop_at = Marker =>
        /\ pc # "error"
        /\ pc = "convert" \/ Traversed
            => IsPrefix(Written(writer.out), Events(doc.paragraphs))
        /\ Traversed
            => Written(writer.out) = Events(doc.paragraphs)

\* The run is over and the settings file written; the marker stood inside a
\* chunk of a paragraph that was not the last node, after some text; that
\* text is the last thing written
C20_Witness ==
    /\ doc.args.stop_at = Marker /\ pc = "done" /\ file.exists
    /\ idx <= Len(doc.paragraphs)
    /\ writer.out # <<>>
    /\ Last(writer.out).t = "Text"
    /\ \E k \in 1..(idx - 1) :
        /\ doc.paragraphs[k].kind = "para"
        /\ \E c \in Range(ParaText(doc.paragraphs[k].spans)) :
            Occurs(Marker, c) /\ BeforeMarker(c) = Last(writer.out).text

-----------------------------------------------------------------------------
(* Properties of the footnote scopes                                       *)

\* The paragraph without its footnotes and comments
WithoutNotes(para) ==
    [para EXCEPT !.spans =
        [i \in 1..Len(para.spans) |->
            [para.spans[i] EXCEPT !.footnotes = <<>>, !.comments = <<>>]]]

HasNotes(para) == para.kind = "para" /\ WithoutNotes(para) # para

\* The texts of the buffer that stand outside every footnote
RECURSIVE OuterTexts(_, _)
OuterTexts(out, depth) ==
    IF out = <<>> THEN <<>>
    ELSE IF Head(out).t = "FootnoteStart"
    THEN OuterTexts(Tail(out), depth + 1)
    ELSE IF Head(out).t = "FootnoteEnd"
    THEN OuterTexts(Tail(out), depth - 1)
    ELSE (IF Head(out).t = "Text" /\ depth = 0 THEN <<Head(out).text>>
          ELSE <<>>) \o OuterTexts(Tail(out), depth)

\* The marker stands in paragraph para itself, not in a note
MarkerOutside(para) ==
    stop_marker # None /\ Occurs(stop_marker, Flatten(ParaText(para.spans)))

\* C21: a step that converts a paragraph with footnotes or comments leaves
\* the traversal state and the texts outside the notes as the same paragraph
\* without notes does; and when the stop marker ends the step inside a note,
\* the state is the one the paragraph had reached when the note began: the
\* previous paragraph's style and flags, the span's character style, the
\* paragraph's character format
C21_ScopeRestored ==
    [][ConvertParagraph /\ HasNotes(doc.paragraphs[idx])
            /\ ~MarkerOutside(doc.paragraphs[idx]) =>
        LET para == doc.paragraphs[idx]
            plain == convert_paragraph(Self, WithoutNotes(para), NoStyle)
        IN  IF pc' = "convert"
            THEN /\ state'.prev_para_style = plain.state.prev_para_style
                 /\ state'.is_post_empty = plain.state.is_post_empty
                 /\ state'.is_post_break = plain.state.is_post_break
                 /\ state'.curr_char_style = plain.state.curr_char_style
                 /\ state'.para_char_fmt = plain.state.para_char_fmt
                 /\ OuterTexts(writer'.out, 0) = OuterTexts(plain.writer.out, 0)
            ELSE /\ pc' = "write_output"
                 /\ state'.prev_para_style = state.prev_para_style
                 /\ state'.is_post_empty = state.is_post_empty
                 /\ state'.is_post_break = state.is_post_break
                 /\ state'.para_char_fmt = NORMAL
                 /\ \E i \in 1..Len(para.spans) :
                        /\ para.spans[i] # WithoutNotes(para).spans[i]
                        /\ state'.curr_char_style =
                            IF para.spans[i].wpid = None THEN NoStyle
                            ELSE StylesGet(styles,
                                    style_key("character", para.spans[i].wpid))
    ]_vars

\* The run is over; the stop marker was met inside a footnote of a span in a
\* character style: the footnote was closed, the span's style asserted again,
\* and the state holds that style
C21_Witness ==
    /\ pc = "done" /\ stop_marker # None
    /\ Len(writer.out) >= 2
    /\ writer.out[Len(writer.out) - 1].t = "FootnoteEnd"
    /\ Last(writer.out).t = "CharStyle"
    /\ Last(writer.out).obj # NoStyle
    /\ state.curr_char_style = Last(writer.out).obj

\* The scope tags and the tag that closes each
ScopeEnd(t) ==
    CASE t = "TableStart" -> "TableEnd"
      [] t = "RowStart" -> "RowEnd"
      [] t = "CellStart" -> "CellEnd"
      [] t = "FootnoteStart" -> "FootnoteEnd"
      [] OTHER -> ""

\* The scopes left open by the items of out, innermost last, after those of
\* stack; <<"unmatched">> once an end tag closes anything but the innermost
\* open scope
RECURSIVE OpenScopes(_, _)
OpenScopes(out, stack) ==
    IF out = <<>> \/ stack = <<"unmatched">> THEN stack
    ELSE IF ScopeEnd(Head(out).t) # ""
    THEN OpenScopes(Tail(out), Append(stack, Head(out).t))
    ELSE IF Head(out).t \in {"TableEnd", "RowEnd", "CellEnd", "FootnoteEnd"}
    THEN OpenScopes(Tail(out),
            IF stack # <<>> /\ ScopeEnd(Last(stack)) = Head(out).t
            THEN SubSeq(stack, 1, Len(stack) - 1)
            ELSE <<"unmatched">>)
    ELSE OpenScopes(Tail(out), stack)

\* C22: when the run is over, every scope opened in the output is closed, in
\* nesting order
C22_ScopesBalanced ==
    pc = "done" => OpenScopes(writer.out, <<>>) = <<>>

\* When the run is over no footnote is left open
C22_FootnotesClosed ==
    pc = "done" =>
        "FootnoteStart" \notin
            {OpenScopes(writer.out, <<>>)[i] :
                i \in 1..Len(OpenScopes(writer.out, <<>>))}

\* The styles named by the style tags of the output
TaggedStyles ==
    {writer.out[i].obj : i \in {j \in 1..Len(writer.out) :
        /\ writer.out[j].t \in {"ParaStyle", "CharStyle", "TableStyle"}
        /\ writer.out[j].obj # NoStyle}}

\* C23: when the run is over, update_section was called, under its section
\* name, for every style that a ParaStyle, CharStyle or TableStyle tag of the
\* output names
C23_TaggedStylesActivated ==
    pc = "done" =>
        \A s \in TaggedStyles :
            fix_section_name(heap[s].realm, heap[s].internal_name)
                \in style_sections_used

\* C24: every tag that a set_character_style call wrote names a style other
\* than the one the writer held as current when the call was made
C24_TagOnlyOnChange ==
    \A i \in 1..Len(writer.out) :
        writer.out[i].via = "set" => writer.out[i].obj # writer.out[i].wcs

\* C25: on declarations of the known realms, link_styles completes
C25_LinkStylesCompletes ==
    pc = "link_styles" /\ ~DeclaresUnknownRealm => link_styles(Self).exc = ""

\* The traversal is about to convert a paragraph whose style id no
\* declaration of the paragraph realm carries
AtUndeclared ==
    /\ pc = "convert" /\ idx <= Len(doc.paragraphs)
    /\ doc.paragraphs[idx].kind = "para"
    /\ doc.paragraphs[idx].wpid # None
    /\ ~StylesHas(styles, style_key("paragraph", doc.paragraphs[idx].wpid))

\* C26: looking up the style of such a paragraph does not fail and yields a
\* style whose parent is the base paragraph style
C26_UndeclaredLookupCreates ==
    AtUndeclared =>
        LET r == style(Self, "paragraph", doc.paragraphs[idx].wpid)
        IN  /\ r.exc = ""
            /\ r.ret # NoStyle
            /\ r.heap[r.ret].parent_style = r.base_styles["paragraph"]

\* C27: in manual mode every style a CharStyle tag names is a character
\* style and every style a ParaStyle tag names is a paragraph style
C27_ManualStyleOfRealm ==
    doc.args.manual =>
        \A i \in 1..Len(writer.out) :
            writer.out[i].obj # NoStyle =>
                /\ writer.out[i].t = "CharStyle"
                    => heap[writer.out[i].obj].realm = "character"
                /\ writer.out[i].t = "ParaStyle"
                    => heap[writer.out[i].obj].realm = "paragraph"

\* The traversal is about to convert a paragraph of a declared style
AtDeclared ==
    /\ pc = "convert" /\ idx <= Len(doc.paragraphs)
    /\ doc.paragraphs[idx].kind = "para"
    /\ doc.paragraphs[idx].wpid # None
    /\ StylesHas(styles, style_key("paragraph", doc.paragraphs[idx].wpid))

\* C28: the activation of that paragraph's style, and its definition in the
\* writer, return: neither walk meets again a style it is still working on
C28_WalksTerminate ==
    AtDeclared =>
        LET s == StylesGet(styles,
                    style_key("paragraph", doc.paragraphs[idx].wpid))
        IN  /\ activate_style(Self, s).exc # "RecursionError"
            /\ define_style(Self, s).exc # "RecursionError"

\* The definition walk of the writer returns for every style of the registry
C28_DefineStyleReturns ==
    pc \in {"define_styles", "convert"} =>
        \A i \in 1..Len(styles) : define_style(Self, styles[i].obj).exc = ""

\* para is no page break, has text, and all its text is whitespace; its
\* spans carry no footnote and no comment
WhitespaceOnly(para) ==
    /\ para.kind = "para" /\ ~para.page_break
    /\ \A i \in 1..Len(para.spans) :
        /\ para.spans[i].footnotes = <<>> /\ para.spans[i].comments = <<>>
        /\ \A j \in 1..Len(para.spans[i].text) :
            para.spans[i].text[j] = <<>> \/ IsSpace(para.spans[i].text[j])
    /\ \E i \in 1..Len(para.spans) : \E j \in 1..Len(para.spans[i].text) :
        IsSpace(para.spans[i].text[j])

\* C29: the step that converts a paragraph of whitespace leaves is_empty, and
\* with it is_post_empty, true
C29_WhitespaceParaIsEmpty ==
    [][ConvertParagraph /\ WhitespaceOnly(doc.paragraphs[idx])
            /\ pc' = "convert"
        => state'.is_empty /\ state'.is_post_empty]_vars

\* C30: for every text of the output, the writer's _curr_char_style and the
\* traversal state's curr_char_style were the same style when it was written
C30_WriterStyleIsStateStyle ==
    \A i \in 1..Len(writer.out) :
        writer.out[i].t = "Text" => writer.out[i].wcs = writer.out[i].scs

\* The same, for the texts outside footnotes and comments only
C30_OutsideNotes ==
    \A i \in 1..Len(writer.out) :
        /\ writer.out[i].t = "Text"
        /\ "FootnoteStart" \notin
            {OpenScopes(SubSeq(writer.out, 1, i), <<>>)[k] :
                k \in 1..Len(OpenScopes(SubSeq(writer.out, 1, i), <<>>))}
        => writer.out[i].wcs = writer.out[i].scs

====
